---- MODULE Spec2Model ----
(***************************************************************************)
(* Transport client of MyPIVXWallet (src/scripts/network.js):              *)
(* ExplorerNetwork, a correlated request/response client over a WebSocket, *)
(* and the ledger of the wallet (src/scripts/mempool.js): Mempool, which   *)
(* ingests snapshots of unspent outputs and notifications of transactions. *)
(*                                                                         *)
(* Execution model.  JavaScript runs one task at a time.  A timer expiry   *)
(* (the end of a sleep), a WebSocket event (open, close, message) and an   *)
(* external call are tasks; the code an async function runs between two    *)
(* awaits is atomic.  An await of an already settled promise resumes in a  *)
(* microtask: no timer and no WebSocket event runs before it, only other   *)
(* pending microtasks and calls made by them.  A process whose pc ends in  *)
(* "Micro" is such a pending continuation.  Time is not measured: a        *)
(* sleeping process may wake at any task boundary.  Code outside the two   *)
(* classes calls them between tasks, or from continuations of a task it    *)
(* started itself.                                                         *)
(***************************************************************************)
EXTENDS Integers, FiniteSets, Sequences, TLC

(* ------------------------------ bounds -------------------------------- *)
\* WebSocket instances created in one run
MaxConns == 4
\* WebSocket instances created in a run that follows one sendAndWaitForAnswer call
MaxConnsReq == 3
\* polls of awaitWebSocketStatus (100 in the source, network.js:195)
StatusPolls == 1
\* polls of one attempt of sendAndWaitForAnswer
\* (Math.floor(maxAwaitTime / frequency) = 6000 in the source, network.js:256)
AwaitPolls == 2
\* attempts of sendAndWaitForAnswer (10 in the source, network.js:249)
maxAttempts == 2

\* createWebSocketConnection callers and sendAndWaitForAnswer callers
Connectors == {"c1", "c2", "c3"}
Requesters == {"r1"}

Conns == 1..MaxConns
\* every identifier the run can issue: one per subscribe, one per send
IDs == 0..(MaxConns + maxAttempts * Cardinality(Requesters))
Data == {"ok", "err"}
undefined == [data |-> "undefined", from |-> 0]

VARIABLES
    ws,             \* this.ws: the current instance, 0 while undefined
    nConns,         \* WebSocket instances created so far (1..nConns exist)
    readyState,     \* readyState of every instance
    cachedResults,  \* this.cachedResults: id -> payload (and the instance it came on)
    subscriptions,  \* this.subscriptions: id -> instance it was registered for, 0 = none
    ID,             \* this.ID
    sent,           \* id -> instance on which the explorer may still answer it, 0 = none
    subIds,         \* identifiers of subscription requests (the explorer pushes on them)
    reconnects,     \* setNextExplorer() calls made by onclose and not yet started
    cpc, ci, cws, cerr,     \* createWebSocketConnection: position, poll counter,
                            \* instance reset() was called on, error thrown
    rpc, ri, rj, attempt, rid, rws, rres, rerr, \* sendAndWaitForAnswer: position,
                            \* poll counters, attempt, [id, ws_that_sent], result, error
    nSends,         \* history: send() calls of the call that got an identifier
    issued,         \* history: identifiers handed out by send and subscribe
    stale,          \* history: a message of a superseded instance was accepted
    dropped,        \* history: a message was rejected by onmessage
    called,         \* history: identifiers whose subscription callback has been invoked
    ended,          \* history: how the previous attempt of the call ended
    wasClean,       \* history: e.wasClean of the last close event
    callerTick      \* the pending continuations were started by a caller's task

netvars == <<ws, nConns, readyState, cachedResults, subscriptions, ID, sent, subIds, reconnects>>
cvars == <<cpc, ci, cws, cerr>>
rvars == <<rpc, ri, rj, attempt, rid, rws, rres, rerr>>
hvars == <<nSends, issued, stale, dropped, called, ended, wasClean>>

(* ------------- ledger state of the wallet (src/scripts/mempool.js) ------------- *)
\* The handlers of the 'utxo' and 'recent_txs' events are async functions.  A call of
\* a handler runs atomically up to its next getTxFullInfo, a request to the explorer
\* that is answered in a later task; between the two, other handlers, reset() and
\* new blocks may run.  getBalanceNew awaits only the ownership oracle, which
\* answers without waiting for a task.

\* blocks the explorer has when the run starts, and at most
FirstTip == 2
MaxTip == 3
\* entries of one snapshot, of one batch of notifications
MaxUtxos == 2
MaxTxs == 2
\* handler calls started in one run
MaxEvents == 3

\* concurrent calls of the 'utxo' handler and of the 'recent_txs' handler; a new
\* call takes the first number that is free
UtxoCalls == {1, 2}
RecentCalls == {1, 2}

\* the transactions of the wallet on the chain: b spends an output of a, c spends
\* an output of b and the other output of a; c is pending until block 3
TxIds == {"a", "b", "c"}
Height(txid) == CASE txid = "a" -> 1 [] txid = "b" -> 2 [] OTHER -> 3
\* tx.vout of the body the explorer returns: n -> value in coins, and what the
\* wallet says of its script: state and derivation path (the first output of a and
\* the output of c pay to the same key)
VoutOf(txid) ==
    CASE txid = "a" -> <<[value |-> 5, state |-> 1, path |-> "m/0"],
                         [value |-> 3, state |-> 2, path |-> "m/1"]>>
      [] txid = "b" -> <<[value |-> 4, state |-> 1, path |-> "m/2"],
                         [value |-> 1, state |-> 0, path |-> "null"]>>
      [] OTHER      -> <<[value |-> 5, state |-> 4, path |-> "m/0"]>>
\* tx.vin of the body the explorer returns
VinOf(txid) ==
    CASE txid = "a" -> {}
      [] txid = "b" -> {<<"a", 0>>}
      [] OTHER      -> {<<"b", 0>>, <<"a", 1>>}
Outpoints == {<<"a", 0>>, <<"a", 1>>, <<"b", 0>>, <<"b", 1>>, <<"c", 0>>}

COIN == 100000000
SPENDABLE == 1
SPENDABLE_COLD == 2
COLD_RECEIVED == 4

\* what a caller asks the ledger for: the filters, and the amounts in satoshi
Filters == {SPENDABLE, SPENDABLE_COLD, SPENDABLE + SPENDABLE_COLD, SPENDABLE + COLD_RECEIVED}
Amounts == {3 * COIN, 5 * COIN, 10 * COIN}

VARIABLES
    isLoaded,          \* this.#isLoaded
    balance,           \* this.#balance
    coldBalance,       \* this.#coldBalance
    syncHeight,        \* this.#syncHeight
    txmap,             \* this.txmap: txid -> blockHeight of the stored Transaction
    spent,             \* this.spent: the outpoints held by the multimap
    cachedBlockCount,  \* getNetwork().cachedBlockCount: the height of the chain
    upc,               \* 'utxo' handler calls: "idle" or "fetch"
    utxos,             \* their argument
    ui,                \* the entry whose transaction is being fetched
    tpc,               \* 'recent_txs' handler calls: "idle" or "fetch"
    txs,               \* their argument
    ti,                \* the entry whose transaction is being fetched
    nEvents,           \* handler calls started so far
    fetched,           \* history: transactions the current call of a 'utxo' handler fetched
    startedEmpty,      \* history: the call of the 'utxo' handler started on an empty ledger
    base,              \* history: the ledger when it became LOADED with no call in flight, if it did
    notified,          \* history: notifications examined since then
    orphans,           \* history: the handler calls that were in flight at the last reset()
    result,            \* how the handler call that ended in the last step settled, if one did
    answer             \* the query answered in the last step, if it was one, and its value

\* calls of tryEval and of the function lockableFunction returns, in one run
MaxCalls == 3
\* mutations of the bitmask ledger in one run
MaxOps == 3

VARIABLES
    isLocked,          \* LockableFunction (lock.js): this.#isLocked
    lpc,               \* its tryEval calls: "idle", "running" (func invoked, not settled),
                       \* "skipped", "returned", "threw"
    lock,              \* lockableFunction (older variant): let lock
    gpc,               \* the calls of the function it returns, as for lpc
    outpointStatus,    \* bitmask ledger: this.#outpointStatus, the entries in insertion order
    storedTxs,         \* bitmask ledger: the keys of this.#txmap
    nOps,              \* mutations of the bitmask ledger made so far
    returned           \* what the call of the bitmask ledger made in the last step returned

xvars == <<isLocked, lpc, lock, gpc, outpointStatus, storedTxs, nOps, returned>>

ledger == <<isLoaded, balance, coldBalance, syncHeight, txmap, spent>>
uvars == <<upc, utxos, ui>>
tvars == <<tpc, txs, ti>>
mhist == <<fetched, startedEmpty, base, notified, orphans>>
out == <<result, answer>>
mvars == <<ledger, cachedBlockCount, uvars, tvars, nEvents, mhist, out>>
nvars == <<netvars, cvars, rvars, hvars, callerTick, xvars>>
vars == <<nvars, mvars>>

\* lines 91-118: the fields and the constructor
InitMempool ==
    /\ isLoaded = FALSE
    /\ balance = 0
    /\ coldBalance = 0
    /\ syncHeight = -1
    /\ txmap = <<>>
    /\ spent = {}
    /\ cachedBlockCount = FirstTip
    /\ upc = [u \in UtxoCalls |-> "idle"]
    /\ utxos = [u \in UtxoCalls |-> <<>>]
    /\ ui = [u \in UtxoCalls |-> 0]
    /\ tpc = [t \in RecentCalls |-> "idle"]
    /\ txs = [t \in RecentCalls |-> <<>>]
    /\ ti = [t \in RecentCalls |-> 0]
    /\ nEvents = 0
    /\ fetched = [u \in UtxoCalls |-> <<>>]
    /\ startedEmpty = [u \in UtxoCalls |-> FALSE]
    /\ base = {}
    /\ notified = {}
    /\ orphans = {}
    /\ result = [handler |-> "none", how |-> "none"]
    /\ answer = [call |-> "none"]

(* ----------------------- constructor (114-119) ------------------------ *)
Init ==
    /\ ws = 0
    /\ nConns = 0
    /\ readyState = [c \in Conns |-> "NONE"]
    /\ cachedResults = [i \in IDs |-> undefined]
    /\ subscriptions = [i \in IDs |-> 0]
    /\ ID = 0
    /\ sent = [i \in IDs |-> 0]
    /\ subIds = {}
    /\ reconnects = 0
    /\ cpc = [p \in Connectors |-> "idle"]
    /\ ci = [p \in Connectors |-> 0]
    /\ cws = [p \in Connectors |-> 0]
    /\ cerr = [p \in Connectors |-> "none"]
    /\ rpc = [r \in Requesters |-> "idle"]
    /\ ri = [r \in Requesters |-> 0]
    /\ rj = [r \in Requesters |-> 0]
    /\ attempt = [r \in Requesters |-> 0]
    /\ rid = [r \in Requesters |-> 0]
    /\ rws = [r \in Requesters |-> 0]
    /\ rres = [r \in Requesters |-> undefined]
    /\ rerr = [r \in Requesters |-> "none"]
    /\ nSends = [r \in Requesters |-> 0]
    /\ issued = {}
    /\ stale = FALSE
    /\ dropped = FALSE
    /\ called = {}
    /\ ended = [r \in Requesters |-> "none"]
    /\ wasClean = TRUE
    /\ callerTick = FALSE
    /\ InitMempool
    /\ isLocked = FALSE
    /\ lpc = [k \in 1..MaxCalls |-> "idle"]
    /\ lock = FALSE
    /\ gpc = [k \in 1..MaxCalls |-> "idle"]
    /\ outpointStatus = <<>>
    /\ storedTxs = {}
    /\ nOps = 0
    /\ returned = [call |-> "none"]

(* ------------------------- the event loop ----------------------------- *)
MicroPcs == {"resetMicro", "openMicro", "initMicro", "subMicro", "sendMicro"}
\* a continuation is pending in the microtask queue
Micro == (\E p \in Connectors : cpc[p] \in MicroPcs) \/ (\E r \in Requesters : rpc[r] \in MicroPcs)
\* a timer or a WebSocket event may run
Task == ~Micro
\* a caller may call: between tasks, or from the task that started the pending
\* continuations (a timer or a WebSocket event runs no code of a caller)
CanCall == Task \/ callerTick
\* the step of a caller, of a timer or WebSocket event, of a continuation
\* (none of them touches the ledger)
CallerStep == callerTick' = Micro' /\ UNCHANGED <<mvars, xvars>>
TaskStep == callerTick' = FALSE /\ UNCHANGED <<mvars, xvars>>
MicroStep == callerTick' = (callerTick /\ Micro') /\ UNCHANGED <<mvars, xvars>>

(* ------------------- awaitWebSocketStatus (194-204) ------------------- *)
\* a wait that does not look at the state
StatusReachedAlways(status) == TRUE
\* line 196 / 201: this.ws.readyState === status, read from the current this.ws
StatusReached(status) == readyState[ws] = status
\* a loop written with i <= 100
StatusTimedOutLate(i) == i >= StatusPolls + 1
\* line 195: the for loop is over after StatusPolls sleeps
StatusTimedOut(i) == i >= StatusPolls


(* ------------------------- small helpers ------------------------------ *)
InFlight(p) == cpc[p] \notin {"idle", "done", "failed"}
\* instances left once the calls that are still inside reset() have opened theirs
Budget == MaxConns - nConns
          - Cardinality({p \in Connectors : cpc[p] \in {"resetWait", "resetMicro", "openMicro"}})
NoEntries == [i \in IDs |-> undefined]
NoSubscriptions == [i \in IDs |-> 0]

(* ------------------------ reset (179-192) ----------------------------- *)
\* line 180: only an OPEN instance is closed
ResetCloses(st) == st = "OPEN"
\* readyState after the synchronous part of reset() (lines 180-182)
AfterResetClose == IF ResetCloses(readyState[ws])
                   THEN [readyState EXCEPT ![ws] = "CLOSING"]
                   ELSE readyState

(* ------------- openWebSocketConnection (136-167), line 137 ------------ *)
OpenWebSocketConnection ==
    /\ nConns' = nConns + 1
    /\ ws' = nConns + 1
    /\ readyState' = [readyState EXCEPT ![nConns + 1] = "CONNECTING"]

(* ---------------- createWebSocketConnection (120-135) ----------------- *)
\* a connect that opens at once
MustResetNever == FALSE
\* line 122: if (this.ws)
MustReset == ws # 0

\* the call, up to its first suspension
CreateWebSocketConnection(p) ==
    /\ CanCall
    /\ ~InFlight(p)
    /\ Budget > 0
    /\ cerr' = [cerr EXCEPT ![p] = "none"]
    /\ ci' = [ci EXCEPT ![p] = 0]
    /\ IF MustReset
       THEN \* line 123: await this.reset()
            /\ readyState' = AfterResetClose
            /\ cws' = [cws EXCEPT ![p] = ws]
            /\ cpc' = [cpc EXCEPT ![p] = IF readyState'[ws] = "CLOSED"
                                          THEN "resetMicro" ELSE "resetWait"]
            /\ UNCHANGED <<ws, nConns>>
       ELSE \* lines 133-134: the new instance is CONNECTING, so the wait for OPEN sleeps
            /\ OpenWebSocketConnection
            /\ cws' = [cws EXCEPT ![p] = 0]
            /\ cpc' = [cpc EXCEPT ![p] = "initWait"]
    /\ UNCHANGED <<cachedResults, subscriptions, ID, sent, subIds, rvars, hvars>>
    /\ CallerStep

\* setNetwork (499-502): an external caller switches the explorer
SetNetwork(p) ==
    /\ CreateWebSocketConnection(p)
    /\ UNCHANGED reconnects

\* setNextExplorer, called by onclose (149): picks the next explorer and calls setNetwork
SetNextExplorer(p) ==
    /\ reconnects > 0
    /\ reconnects' = reconnects - 1
    /\ CreateWebSocketConnection(p)

\* reset() wakes from sleep(100) inside awaitWebSocketStatus(CLOSED) (184-187)
ResetWake(p) ==
    /\ Task
    /\ cpc[p] = "resetWait"
    /\ IF StatusReached("CLOSED")
       THEN /\ cpc' = [cpc EXCEPT ![p] = "resetMicro"]
            /\ ci' = [ci EXCEPT ![p] = 0]
            /\ UNCHANGED cerr
       ELSE /\ ci' = [ci EXCEPT ![p] = ci[p] + 1]
            /\ IF StatusTimedOut(ci[p] + 1)
               THEN /\ cpc' = [cpc EXCEPT ![p] = "failed"]
                    /\ cerr' = [cerr EXCEPT ![p] = "Websocket is not getting closed"]
               ELSE UNCHANGED <<cpc, cerr>>
    /\ UNCHANGED <<netvars, cws, rvars, hvars>>
    /\ TaskStep

\* reset() after the wait: lines 190-191
ResetClear(p) ==
    /\ cpc[p] = "resetMicro"
    /\ cachedResults' = NoEntries
    /\ subscriptions' = NoSubscriptions
    /\ cpc' = [cpc EXCEPT ![p] = "openMicro"]
    /\ UNCHANGED <<ws, nConns, readyState, ID, sent, subIds, reconnects, ci, cws, cerr, rvars,
                   hvars>>
    /\ MicroStep

\* createWebSocketConnection after await this.reset(): lines 126-134
OpenAfterReset(p) ==
    /\ cpc[p] = "openMicro"
    /\ OpenWebSocketConnection
    /\ cpc' = [cpc EXCEPT ![p] = "initWait"]
    /\ ci' = [ci EXCEPT ![p] = 0]
    /\ UNCHANGED <<cachedResults, subscriptions, ID, sent, subIds, reconnects, cws, cerr, rvars, hvars>>
    /\ MicroStep

(* ---------------- initWebSocketConnection (168-174) ------------------- *)
\* wakes from sleep(100) inside awaitWebSocketStatus(OPEN) (169-172)
InitWake(p) ==
    /\ Task
    /\ cpc[p] = "initWait"
    /\ IF StatusReached("OPEN")
       THEN /\ cpc' = [cpc EXCEPT ![p] = "initMicro"]
            /\ ci' = [ci EXCEPT ![p] = 0]
            /\ UNCHANGED cerr
       ELSE /\ ci' = [ci EXCEPT ![p] = ci[p] + 1]
            /\ IF StatusTimedOut(ci[p] + 1)
               THEN /\ cpc' = [cpc EXCEPT ![p] = "failed"]
                    /\ cerr' = [cerr EXCEPT ![p] = "Cannot connect to websocket!"]
               ELSE UNCHANGED <<cpc, cerr>>
    /\ UNCHANGED <<netvars, cws, rvars, hvars>>
    /\ TaskStep

\* line 173: subscribeNewBlock() -> subscribe(), up to its wait for OPEN (207-210)
InitSubscribe(p) ==
    /\ cpc[p] = "initMicro"
    /\ ci' = [ci EXCEPT ![p] = 0]
    /\ cpc' = [cpc EXCEPT ![p] = IF StatusReached("OPEN") THEN "subMicro" ELSE "subWait"]
    /\ UNCHANGED <<netvars, cws, cerr, rvars, hvars>>
    /\ MicroStep

(* ------------------------ subscribe (206-221) ------------------------- *)
\* subscribe wakes from sleep(100) inside awaitWebSocketStatus(OPEN) (207-210).  No
\* specification takes this step: subscribeNewBlock is called by the continuation
\* that has just seen the instance OPEN (169-173), so this wait does not sleep.
SubWake(p) ==
    /\ Task
    /\ cpc[p] = "subWait"
    /\ IF StatusReached("OPEN")
       THEN /\ cpc' = [cpc EXCEPT ![p] = "subMicro"]
            /\ ci' = [ci EXCEPT ![p] = 0]
            /\ UNCHANGED cerr
       ELSE /\ ci' = [ci EXCEPT ![p] = ci[p] + 1]
            /\ IF StatusTimedOut(ci[p] + 1)
               THEN /\ cpc' = [cpc EXCEPT ![p] = "failed"]
                    /\ cerr' = [cerr EXCEPT ![p] = "Cannot connect to websocket!"]
               ELSE UNCHANGED <<cpc, cerr>>
    /\ UNCHANGED <<netvars, cws, rvars, hvars>>
    /\ TaskStep

\* a counter that is not advanced
NextIDSame(n) == n
\* this.ID++ (219, 243)
NextID(n) == n + 1

\* WebSocket.send: throws on a CONNECTING instance, transmits on an OPEN one,
\* and discards the data on a CLOSING or CLOSED one
WsSendThrows == readyState[ws] = "CONNECTING"
Transmit(id) == IF readyState[ws] = "OPEN" THEN [sent EXCEPT ![id] = ws] ELSE sent

\* a subscribe that keeps no callback
RegisterNothing(id) == subscriptions
\* line 212: this.subscriptions[id] = callback
Register(id) == [subscriptions EXCEPT ![id] = ws]

\* lines 211-220
Subscribe(p) ==
    /\ cpc[p] = "subMicro"
    /\ subscriptions' = Register(ID)
    /\ issued' = issued \cup {ID}
    /\ IF WsSendThrows
       THEN /\ cpc' = [cpc EXCEPT ![p] = "failed"]
            /\ cerr' = [cerr EXCEPT ![p] = "InvalidStateError"]
            /\ UNCHANGED <<ID, sent, subIds>>
       ELSE /\ sent' = Transmit(ID)
            /\ subIds' = subIds \cup {ID}
            /\ ID' = NextID(ID)
            /\ cpc' = [cpc EXCEPT ![p] = "done"]
            /\ UNCHANGED cerr
    /\ UNCHANGED <<wasClean, ws, nConns, readyState, cachedResults, reconnects, ci, cws, rvars,
                   nSends, stale, dropped, called, ended>>
    /\ MicroStep


(* --------------------- WebSocket events (138-166) --------------------- *)
\* a closed instance delivers nothing more
Unanswerable(c) == [i \in IDs |-> IF sent[i] = c THEN 0 ELSE sent[i]]
\* the explorer answers a request once, and keeps pushing on a subscription
Answered(id) == IF id \in subIds THEN sent ELSE [sent EXCEPT ![id] = 0]

\* onopen (138-140)
WsOpen(c) ==
    /\ Task
    /\ readyState[c] = "CONNECTING"
    /\ readyState' = [readyState EXCEPT ![c] = "OPEN"]
    /\ UNCHANGED <<ws, nConns, cachedResults, subscriptions, ID, sent, subIds, reconnects,
                   cvars, rvars, hvars>>
    /\ TaskStep

\* an onclose that rotates the explorer after every close
OnCloseAlways(clean) == reconnects + 1
\* lines 143-150: setNextExplorer() is called unless e.wasClean
OnClose(clean) == IF ~clean THEN reconnects + 1 ELSE reconnects

\* onclose with e.wasClean (141-143): the closing handshake of close() completed
WsCloseClean(c) ==
    /\ Task
    /\ readyState[c] = "CLOSING"
    /\ readyState' = [readyState EXCEPT ![c] = "CLOSED"]
    /\ sent' = Unanswerable(c)
    /\ reconnects' = OnClose(TRUE)
    /\ wasClean' = TRUE
    /\ UNCHANGED <<ws, nConns, cachedResults, subscriptions, ID, subIds, cvars, rvars,
                   nSends, issued, stale, dropped, called, ended>>
    /\ TaskStep

\* onclose without e.wasClean (143-150): the connection failed or was lost
WsCloseUnclean(c) ==
    /\ Task
    /\ readyState[c] \in {"CONNECTING", "OPEN", "CLOSING"}
    /\ readyState' = [readyState EXCEPT ![c] = "CLOSED"]
    /\ reconnects' = OnClose(FALSE)
    /\ wasClean' = FALSE
    /\ sent' = Unanswerable(c)
    /\ UNCHANGED <<ws, nConns, cachedResults, subscriptions, ID, subIds, cvars, rvars,
                   nSends, issued, stale, dropped, called, ended>>
    /\ TaskStep

\* a handler without the early return
OnMessageAcceptsAlways(c) == TRUE
\* line 155: the handler goes on only on an OPEN instance
OnMessageAccepts(c) == readyState[c] = "OPEN"

\* a handler that finds no callback
IsSubscriptionNever(id) == FALSE
\* lines 160-161: a callback is registered under the identifier of the message
IsSubscription(id) == subscriptions[id] # 0

\* onmessage (152-166) of instance c: the explorer answers a request transmitted on c
OnMessage(c, id, d) ==
    /\ Task
    /\ readyState[c] \in {"OPEN", "CLOSING"}
    /\ sent[id] = c
    /\ IF OnMessageAccepts(c)
       THEN \* lines 158-165
            /\ called' = IF IsSubscription(id) THEN called \cup {id} ELSE called
            /\ cachedResults' = [cachedResults EXCEPT ![id] = [data |-> d, from |-> c]]
            /\ stale' = (stale \/ c # ws)
            /\ UNCHANGED dropped
       ELSE \* line 156
            /\ dropped' = TRUE
            /\ UNCHANGED <<cachedResults, stale, called>>
    /\ sent' = Answered(id)
    /\ UNCHANGED <<wasClean, ws, nConns, readyState, subscriptions, ID, subIds, reconnects,
                   cvars, rvars, nSends, issued, ended>>
    /\ TaskStep

(* --------------------------- send (230-246) --------------------------- *)
\* send() up to its wait for OPEN (233-236)
StartSend(r) ==
    /\ ri' = [ri EXCEPT ![r] = 0]
    /\ rpc' = [rpc EXCEPT ![r] = IF StatusReached("OPEN") THEN "sendMicro" ELSE "sendWait"]

SendWake(r) ==
    /\ Task
    /\ rpc[r] = "sendWait"
    /\ IF StatusReached("OPEN")
       THEN /\ rpc' = [rpc EXCEPT ![r] = "sendMicro"]
            /\ ri' = [ri EXCEPT ![r] = 0]
            /\ UNCHANGED rerr
       ELSE /\ ri' = [ri EXCEPT ![r] = ri[r] + 1]
            /\ IF StatusTimedOut(ri[r] + 1)
               THEN /\ rpc' = [rpc EXCEPT ![r] = "failed"]
                    /\ rerr' = [rerr EXCEPT ![r] = "Cannot connect to websocket!"]
               ELSE UNCHANGED <<rpc, rerr>>
    /\ UNCHANGED <<netvars, cvars, rj, attempt, rid, rws, rres, hvars>>
    /\ TaskStep

(* ------------------- sendAndWaitForAnswer (247-286) ------------------- *)
\* a loop that runs once too often
CanAttemptOnceMore(a) == a <= maxAttempts + 1
\* line 253
CanAttempt(a) == a <= maxAttempts
\* a wait without its ceiling
InAwaitTimeForever(j) == TRUE
\* line 256
InAwaitTime(j) == j < AwaitPolls
\* an error field that is not looked at
HasErrorNever(res) == FALSE
\* line 260
HasError(res) == res.data = "err"
\* a wait that does not look at the connection
WsChangedNever(r) == FALSE
\* line 269
WsChanged(r) == rws[r] # ws

\* lines 257-267 for the entry res of identifier id: what the loop body does next
AfterRead(res) == IF res = undefined THEN "poll"
                  ELSE IF HasError(res) THEN "backoff" ELSE "done"

\* history: the attempt that read res on instance c goes on, or ends in this way
HowEnded(r, res, c) ==
    IF AfterRead(res) = "done"
    THEN [ended EXCEPT ![r] = IF readyState[c] = "OPEN" THEN "answered"
                              ELSE IF readyState[c] = "CLOSING" THEN "answeredClosing"
                              ELSE "answeredClosed"]
    ELSE ended

\* lines 273-285: the attempt is over (its id and ws_that_sent go out of scope);
\* the next one calls send(), or the call fails
EndAttempt(r, how) ==
    /\ ended' = [ended EXCEPT ![r] = how]
    /\ attempt' = [attempt EXCEPT ![r] = attempt[r] + 1]
    /\ rid' = [rid EXCEPT ![r] = 0]
    /\ rws' = [rws EXCEPT ![r] = 0]
    /\ rj' = [rj EXCEPT ![r] = 0]
    /\ IF CanAttempt(attempt[r] + 1)
       THEN StartSend(r) /\ UNCHANGED rerr
       ELSE /\ rpc' = [rpc EXCEPT ![r] = "failed"]
            /\ rerr' = [rerr EXCEPT ![r] = "Failed to communicate with the explorer"]
            /\ UNCHANGED ri

\* the call: getTxInfo, getAccountInfo, ... (getNetwork() is null before the first connect)
SendAndWaitForAnswer(r) ==
    /\ CanCall
    /\ rpc[r] = "idle"
    /\ ws # 0
    /\ attempt' = [attempt EXCEPT ![r] = 1]
    /\ StartSend(r)
    /\ UNCHANGED <<netvars, cvars, rj, rid, rws, rres, rerr, hvars>>
    /\ CallerStep

\* send() after its wait (237-245), then the first pass of the loop body (256-267)
Send(r) ==
    /\ rpc[r] = "sendMicro"
    /\ ID' = NextID(ID)
    /\ issued' = issued \cup {ID}
    /\ nSends' = [nSends EXCEPT ![r] = nSends[r] + 1]
    /\ IF WsSendThrows
       THEN /\ rpc' = [rpc EXCEPT ![r] = "failed"]
            /\ rerr' = [rerr EXCEPT ![r] = "InvalidStateError"]
            /\ UNCHANGED <<sent, cachedResults, rj, rid, rws, rres, ended>>
       ELSE /\ sent' = Transmit(ID)
            /\ rid' = [rid EXCEPT ![r] = ID]
            /\ rws' = [rws EXCEPT ![r] = ws]
            /\ rj' = [rj EXCEPT ![r] = 0]
            /\ rpc' = [rpc EXCEPT ![r] = AfterRead(cachedResults[ID])]
            /\ cachedResults' = [cachedResults EXCEPT ![ID] = undefined]
            /\ rres' = [rres EXCEPT ![r] = IF AfterRead(cachedResults[ID]) = "done"
                                            THEN cachedResults[ID] ELSE rres[r]]
            /\ ended' = HowEnded(r, cachedResults[ID], ws)
            /\ UNCHANGED rerr
    /\ UNCHANGED <<wasClean, ws, nConns, readyState, subscriptions, subIds, reconnects, cvars, ri,
                   attempt, stale, dropped, called>>
    /\ MicroStep

\* wakes from sleep(frequency) (267): lines 269-271, then the next pass of the loop
PollWake(r) ==
    /\ Task
    /\ rpc[r] = "poll"
    /\ IF WsChanged(r) \/ ~InAwaitTime(rj[r] + 1)
       THEN /\ EndAttempt(r, IF WsChanged(r) THEN "swapped" ELSE "timeout")
            /\ UNCHANGED <<cachedResults, rres>>
       ELSE /\ rj' = [rj EXCEPT ![r] = rj[r] + 1]
            /\ rpc' = [rpc EXCEPT ![r] = AfterRead(cachedResults[rid[r]])]
            /\ cachedResults' = [cachedResults EXCEPT ![rid[r]] = undefined]
            /\ rres' = [rres EXCEPT ![r] = IF AfterRead(cachedResults[rid[r]]) = "done"
                                            THEN cachedResults[rid[r]] ELSE rres[r]]
            /\ ended' = HowEnded(r, cachedResults[rid[r]], rws[r])
            /\ UNCHANGED <<attempt, ri, rerr, rid, rws>>
    /\ UNCHANGED <<wasClean, ws, nConns, readyState, subscriptions, ID, sent, subIds, reconnects, cvars,
                   nSends, issued, stale, dropped, called>>
    /\ TaskStep

\* wakes from sleep(1000) (261): lines 262-263, the attempt is over
BackoffWake(r) ==
    /\ Task
    /\ rpc[r] = "backoff"
    /\ EndAttempt(r, "error")
    /\ UNCHANGED <<wasClean, netvars, cvars, rres, nSends, issued, stale, dropped, called>>
    /\ TaskStep

(* ============================ mempool.js ============================== *)
Max(x, y) == IF x >= y THEN x ELSE y
\* the lists of at most n elements of S
Lists(S, n) == UNION {[1..k -> S] : k \in 0..n}

\* what the explorer knows of a transaction: its confirmations, the height in a
\* notification (-1 while pending)
Confirmations(txid) ==
    IF Height(txid) <= cachedBlockCount THEN cachedBlockCount - Height(txid) + 1 ELSE 0
NotifiedHeight(txid) == IF Height(txid) <= cachedBlockCount THEN Height(txid) ELSE -1
\* the payloads of the two events: unspent outputs of mined transactions, and
\* transactions of the wallet
UtxoEntries ==
    {[txid |-> op[1], vout |-> op[2], height |-> Height(op[1])] :
        op \in {o \in Outpoints : Height(o[1]) <= cachedBlockCount}}
TxEntries == {[txid |-> t, blockHeight |-> NotifiedHeight(t)] : t \in TxIds}

(* --------------------- parseTransaction (346-371) --------------------- *)
\* line 354
ParseValue(value) == value * COIN
\* lines 364-367
ParseBlockHeight(confirmations) == cachedBlockCount - (confirmations - 1) - confirmations
\* the Transaction stored for the body fetched now
ParseTransaction(txid) == ParseBlockHeight(Confirmations(txid))
\* Transaction.isConfirmed (65-67)
IsConfirmed(blockHeight) == blockHeight # -1
Has(tm, txid) == txid \in DOMAIN tm
\* a map that stores nothing
MapSetNothing(tm, txid, tx) == tm
\* Map.set
MapSet(tm, txid, tx) == [t \in DOMAIN tm \cup {txid} |-> IF t = txid THEN tx ELSE tm[t]]
\* the output n of a transaction, as parsed
Vout(op) == VoutOf(op[1])[op[2] + 1]
VoutsOf(txid) == {op \in Outpoints : op[1] = txid}

(* ------------------------- isSpent (219-221) -------------------------- *)
\* a lookup that finds every outpoint
IsSpentAlways(sp, op) == TRUE
\* as a condition: undefined when the multimap has no array for op.txid, else the
\* value of some()
IsSpent(sp, op) == op \in sp

\* a mark that does not look first
MarkAgain(entries, op) == Append(entries, op)
\* lines 380-382 (and 169-171) on the array the multimap holds for op.txid
Mark(entries, op) ==
    IF ~IsSpent({entries[k] : k \in DOMAIN entries}, op) THEN Append(entries, op) ELSE entries

(* ---------------------- getBalanceNew (226-248) ----------------------- *)
RECURSIVE BitAnd(_, _)
BitAnd(x, y) ==
    IF x = 0 \/ y = 0 THEN 0
    ELSE (x % 2) * (y % 2) + 2 * BitAnd(x \div 2, y \div 2)

\* lines 232-234
Skips(sp, op) == IsSpent(sp, op)

\* lines 231-240: the outputs of one stored transaction, from output n on
RECURSIVE VoutLoop(_, _, _, _)
VoutLoop(sp, filter, txid, n) ==
    IF n >= Len(VoutOf(txid)) THEN 0
    ELSE LET op == <<txid, n>>
             counted == IF Skips(sp, op) THEN 0
                        ELSE IF BitAnd(Vout(op).state, filter) = 0 THEN 0
                        ELSE ParseValue(Vout(op).value)
         IN  counted + VoutLoop(sp, filter, txid, n + 1)

\* line 230: the stored transactions that are left
RECURSIVE TxLoop(_, _, _, _)
TxLoop(tm, sp, filter, left) ==
    IF left = {} THEN 0
    ELSE LET txid == CHOOSE t \in left : TRUE
         IN  (IF Has(tm, txid) THEN VoutLoop(sp, filter, txid, 0) ELSE 0)
             + TxLoop(tm, sp, filter, left \ {txid})

GetBalanceNew(tm, sp, filter) == TxLoop(tm, sp, filter, TxIds)

\* the outcome of a step for the caller of a handler, 'utxo' or 'recent_txs' (or
\* "none" when the step is reset() or a new block): "none" while the call goes on or
\* the step is not one of a handler, "returned" when its promise is fulfilled,
\* "logged" when it is fulfilled after console.error, "threw" when it is rejected
Settles(handler, how) ==
    /\ result' = [handler |-> handler, how |-> how]
    /\ answer' = [call |-> "none"]
\* the handler calls that are suspended at a getTxFullInfo
InFlightCalls ==
    {<<"utxo", u>> : u \in {v \in UtxoCalls : upc[v] = "fetch"}}
        \cup {<<"recent_txs", t>> : t \in {v \in RecentCalls : tpc[v] = "fetch"}}

(* ------------------------- hasUTXO (253-274) -------------------------- *)
HasUTXO(tm, sp, op, filter, onlyConfirmed) ==
    IF IsSpent(sp, op) THEN FALSE
    ELSE IF ~Has(tm, op[1]) THEN FALSE
    ELSE IF onlyConfirmed /\ ~IsConfirmed(tm[op[1]]) THEN FALSE
    ELSE IF BitAnd(Vout(op).state, filter) = 0 THEN FALSE
    ELSE TRUE

(* ------------------------- getUTXOs (307-345) ------------------------- *)
\* the orders in which a Map can hold the keys S
Orders(S) == {o \in [1..Cardinality(S) -> S] : \A i, j \in DOMAIN o : o[i] = o[j] => i = j}

\* a scan that also visits the unconfirmed transactions
VisitsAlways(tx, onlyConfirmed) == TRUE
\* lines 313-315
Visits(tx, onlyConfirmed) == ~(onlyConfirmed /\ ~IsConfirmed(tx))

\* lines 312-316: the outputs the two loops visit, in order, for the order in which
\* txmap holds its transactions
RECURSIVE Traversal(_, _, _)
Traversal(tm, order, onlyConfirmed) ==
    IF order = <<>> THEN <<>>
    ELSE LET txid == Head(order)
             vouts == IF Visits(tm[txid], onlyConfirmed)
                      THEN [n \in 1..Len(VoutOf(txid)) |-> <<txid, n - 1>>]
                      ELSE <<>>
         IN  vouts \o Traversal(tm, Tail(order), onlyConfirmed)

\* a scan that stops when the target is reached
EnoughAtTarget(totFound, target) == \E n \in target : totFound >= n
\* line 329: totFound > (11 / 10) * target; target is {} when the caller gives none
\* ((11 / 10) * undefined is NaN, and no number is greater than NaN); for integers
\* totFound > n + n / 10 exactly when totFound - n > n \div 10
Enough(totFound, target) == \E n \in target : totFound - n > n \div 10

\* lines 316-337: the scan from position i on, with the outputs pushed so far
RECURSIVE Select(_, _, _, _, _, _, _)
Select(sp, filter, target, scan, i, found, totFound) ==
    IF i > Len(scan) THEN found
    ELSE LET op == scan[i] IN
         IF IsSpent(sp, op) \/ BitAnd(Vout(op).state, filter) = 0
         THEN Select(sp, filter, target, scan, i + 1, found, totFound)
         ELSE LET tot == totFound + ParseValue(Vout(op).value) IN
              IF Enough(tot, target) THEN Append(found, op)
              ELSE Select(sp, filter, target, scan, i + 1, Append(found, op), tot)

GetUTXOs(tm, sp, order, filter, target, onlyConfirmed) ==
    Select(sp, filter, target, Traversal(tm, order, onlyConfirmed), 1, <<>>, 0)

(* ------------------- getAllUTXOsWithValue (276-299) ------------------- *)
\* a result that keeps the first output found for a path
PutFirst(found, path, op) == IF Has(found, path) THEN found ELSE MapSet(found, path, op)
\* line 295: utxos.set(path, vout)
Put(found, path, op) == MapSet(found, path, op)

\* lines 282-296: the scan from position i on, with the Map filled so far
RECURSIVE WithValue(_, _, _, _, _, _)
WithValue(sp, val, filter, scan, i, found) ==
    IF i > Len(scan) THEN found
    ELSE LET op == scan[i] IN
         IF \/ ParseValue(Vout(op).value) # val
            \/ IsSpent(sp, op)
            \/ BitAnd(Vout(op).state, filter) = 0
         THEN WithValue(sp, val, filter, scan, i + 1, found)
         ELSE WithValue(sp, val, filter, scan, i + 1, Put(found, Vout(op).path, op))

GetAllUTXOsWithValue(tm, sp, order, val, filter, onlyConfirmed) ==
    WithValue(sp, val, filter, Traversal(tm, order, onlyConfirmed), 1, <<>>)

\* a caller reads the ledger: the call and what it returns (a read changes nothing,
\* so a second read in a row returns what it would return as the first: the model
\* takes one read between two steps of the ledger)
GetUTXOsCall(filter, target, onlyConfirmed, order) ==
    /\ answer.call = "none"
    /\ answer' = [call |-> "getUTXOs", filter |-> filter, target |-> target,
                  onlyConfirmed |-> onlyConfirmed, order |-> order,
                  value |-> GetUTXOs(txmap, spent, order, filter, target, onlyConfirmed)]
    /\ result' = [handler |-> "none", how |-> "none"]
    /\ UNCHANGED <<ledger, cachedBlockCount, uvars, tvars, nEvents, mhist, nvars>>

GetAllUTXOsWithValueCall(val, filter, onlyConfirmed, order) ==
    /\ answer.call = "none"
    /\ answer' = [call |-> "getAllUTXOsWithValue", filter |-> filter, val |-> val,
                  onlyConfirmed |-> onlyConfirmed, order |-> order,
                  value |-> GetAllUTXOsWithValue(txmap, spent, order, val, filter, onlyConfirmed)]
    /\ result' = [handler |-> "none", how |-> "none"]
    /\ UNCHANGED <<ledger, cachedBlockCount, uvars, tvars, nEvents, mhist, nvars>>

(* ------------------------------ reset (120-124) ------------------------ *)
Reset ==
    /\ isLoaded' = FALSE
    /\ txmap' = <<>>
    /\ spent' = {}
    /\ base' = {}
    /\ notified' = {}
    /\ orphans' = InFlightCalls
    /\ Settles("none", "none")
    /\ UNCHANGED <<balance, coldBalance, syncHeight, cachedBlockCount, uvars, tvars, nEvents,
                   fetched, startedEmpty, nvars>>

\* the explorer has a new block
NewBlock ==
    /\ cachedBlockCount < MaxTip
    /\ cachedBlockCount' = cachedBlockCount + 1
    /\ Settles("none", "none")
    /\ UNCHANGED <<ledger, uvars, tvars, nEvents, mhist, nvars>>

(* ----------------------- 'utxo' handler (140-185) --------------------- *)
\* lines 166-168
IsMyUTXO(list, op) == \E k \in 1..Len(list) : list[k].txid = op[1] /\ list[k].vout = op[2]
\* lines 164-172: the outputs of the fetched transaction that the list does not name
MarkUnlisted(sp, list, txid) ==
    sp \cup {op \in VoutsOf(txid) : ~IsMyUTXO(list, op) /\ ~IsSpent(sp, op)}

\* lines 156-158: the first entry from i on whose transaction is not stored
RECURSIVE NextUnknown(_, _, _)
NextUnknown(tm, list, i) ==
    IF i > Len(list) \/ ~Has(tm, list[i].txid) THEN i ELSE NextUnknown(tm, list, i + 1)

\* line 155 for the entries i..j
RECURSIVE SyncHeightAfter(_, _, _, _)
SyncHeightAfter(h, list, i, j) ==
    IF i > j \/ i > Len(list) THEN h
    ELSE SyncHeightAfter(Max(h, list[i].height), list, i + 1, j)

NoOtherCall(u) ==
    /\ \A v \in UtxoCalls \ {u} : upc[v] = "idle"
    /\ \A t \in RecentCalls : tpc[t] = "idle"

\* the loop from entry i on, with the maps tm and sp, up to the next await of
\* getTxFullInfo (160) or through the end of the handler (174-182)
UtxoRun(u, list, i, tm, sp, f) ==
    LET j == NextUnknown(tm, list, i) IN
    /\ syncHeight' = SyncHeightAfter(syncHeight, list, i, j)
    /\ txmap' = tm
    /\ spent' = sp
    /\ IF j <= Len(list)
       THEN /\ upc' = [upc EXCEPT ![u] = "fetch"]
            /\ ui' = [ui EXCEPT ![u] = j]
            /\ utxos' = [utxos EXCEPT ![u] = list]
            /\ fetched' = [fetched EXCEPT ![u] = Append(f, list[j].txid)]
            /\ Settles("utxo", "none")
            /\ UNCHANGED <<isLoaded, balance, coldBalance, base, notified, orphans>>
       ELSE /\ upc' = [upc EXCEPT ![u] = "idle"]
            /\ ui' = [ui EXCEPT ![u] = 0]
            /\ utxos' = [utxos EXCEPT ![u] = <<>>]
            /\ fetched' = [fetched EXCEPT ![u] = <<>>]
            /\ isLoaded' = TRUE
            /\ balance' = GetBalanceNew(tm, sp, SPENDABLE)
            /\ coldBalance' = GetBalanceNew(tm, sp, SPENDABLE_COLD)
            /\ base' = IF NoOtherCall(u) THEN {[txmap |-> tm, spent |-> sp]} ELSE {}
            /\ notified' = {}
            /\ orphans' = orphans \ {<<"utxo", u>>}
            /\ Settles("utxo", "returned")

\* lines 147-150: console.error and return
OnLoaded == "logged"
\* a handler that runs on an empty array
IsEmptyNever(list) == FALSE
\* line 142
IsEmpty(list) == Len(list) = 0

\* the event, up to the first await
OnUtxo(u, list) ==
    /\ upc[u] = "idle"
    /\ \A v \in UtxoCalls : v < u => upc[v] # "idle"
    /\ nEvents < MaxEvents
    /\ nEvents' = nEvents + 1
    /\ IF IsEmpty(list)
       THEN \* lines 142-144
            Settles("utxo", "returned") /\ UNCHANGED <<ledger, uvars, mhist>>
       ELSE IF isLoaded
       THEN \* lines 146-151
            Settles("utxo", OnLoaded) /\ UNCHANGED <<ledger, uvars, mhist>>
       ELSE /\ startedEmpty' = [startedEmpty EXCEPT ![u] =
                                  ~isLoaded /\ spent = {} /\ DOMAIN txmap = {}]
            /\ UtxoRun(u, list, 1, txmap, spent, <<>>)
    /\ UNCHANGED <<cachedBlockCount, tvars, nvars>>

\* the explorer's answer to getTxFullInfo (160), and the handler up to the next await
UtxoFetched(u) ==
    /\ upc[u] = "fetch"
    /\ LET list == utxos[u]
           txid == list[ui[u]].txid
       IN  UtxoRun(u, list, ui[u] + 1,
                   MapSet(txmap, txid, ParseTransaction(txid)),
                   MarkUnlisted(spent, list, txid),
                   fetched[u])
    /\ UNCHANGED <<cachedBlockCount, tvars, nEvents, startedEmpty, nvars>>

\* getTxFullInfo (160) fails: the await throws, nothing catches it, and the promise
\* of the handler is rejected
UtxoFetchFails(u) ==
    /\ upc[u] = "fetch"
    /\ upc' = [upc EXCEPT ![u] = "idle"]
    /\ ui' = [ui EXCEPT ![u] = 0]
    /\ utxos' = [utxos EXCEPT ![u] = <<>>]
    /\ fetched' = [fetched EXCEPT ![u] = <<>>]
    /\ orphans' = orphans \ {<<"utxo", u>>}
    /\ Settles("utxo", "threw")
    /\ UNCHANGED <<ledger, cachedBlockCount, tvars, nEvents, startedEmpty, base, notified, nvars>>

(* -------------------- 'recent_txs' handler (186-213) ------------------ *)
\* a handler that accepts every notification
StaleNever(tx) == FALSE
\* line 195
Stale(tx) == syncHeight > tx.blockHeight

\* a handler that fetches whatever it is notified of
NeedsFetchAlways(tm, tx) == TRUE
\* lines 198-201
NeedsFetch(tm, tx) == ~Has(tm, tx.txid) \/ ~IsConfirmed(tm[tx.txid])

\* lines 193-201: the first entry from i on that is fetched
RECURSIVE NextToFetch(_, _, _)
NextToFetch(tm, list, i) ==
    IF i > Len(list) THEN i
    ELSE IF ~Stale(list[i]) /\ NeedsFetch(tm, list[i]) THEN i
    ELSE NextToFetch(tm, list, i + 1)

\* the loop from entry i on, up to the next await of getTxFullInfo (203) or to the end
RecentRun(t, list, i, tm, sp) ==
    LET j == NextToFetch(tm, list, i) IN
    /\ txmap' = tm
    /\ spent' = sp
    /\ notified' = IF base = {} THEN {}
                   ELSE notified \cup {list[k] : k \in {n \in i..j : n <= Len(list)}}
    /\ IF j <= Len(list)
       THEN /\ tpc' = [tpc EXCEPT ![t] = "fetch"]
            /\ ti' = [ti EXCEPT ![t] = j]
            /\ txs' = [txs EXCEPT ![t] = list]
            /\ Settles("recent_txs", "none")
            /\ UNCHANGED orphans
       ELSE /\ tpc' = [tpc EXCEPT ![t] = "idle"]
            /\ ti' = [ti EXCEPT ![t] = 0]
            /\ txs' = [txs EXCEPT ![t] = <<>>]
            /\ Settles("recent_txs", "returned")
            /\ orphans' = orphans \ {<<"recent_txs", t>>}

\* a handler that takes batches at any time
NotLoadedNever == FALSE
\* line 188
NotLoaded == ~isLoaded

\* the event, up to the first await
OnRecentTxs(t, list) ==
    /\ tpc[t] = "idle"
    /\ \A v \in RecentCalls : v < t => tpc[v] # "idle"
    /\ nEvents < MaxEvents
    /\ nEvents' = nEvents + 1
    /\ IF NotLoaded
       THEN \* lines 188-190
            Settles("recent_txs", "returned") /\ UNCHANGED <<txmap, spent, tvars, notified, orphans>>
       ELSE RecentRun(t, list, 1, txmap, spent)
    /\ UNCHANGED <<isLoaded, balance, coldBalance, syncHeight, cachedBlockCount, uvars,
                   fetched, startedEmpty, base, nvars>>

\* an updateMempool that keeps only the new marks
MarkSpentOnly(sp, ops) == ops
\* updateMempool, lines 378-383
MarkSpent(sp, ops) == sp \cup {op \in ops : ~IsSpent(sp, op)}

\* the explorer's answer to getTxFullInfo (203), updateMempool (376-390), and the
\* handler up to the next await
TxFetched(t) ==
    /\ tpc[t] = "fetch"
    /\ LET list == txs[t]
           txid == list[ti[t]].txid
           tm == MapSet(txmap, txid, ParseTransaction(txid))
           sp == MarkSpent(spent, VinOf(txid))
       IN  /\ balance' = GetBalanceNew(tm, sp, SPENDABLE)
           /\ coldBalance' = GetBalanceNew(tm, sp, SPENDABLE_COLD)
           /\ RecentRun(t, list, ti[t] + 1, tm, sp)
    /\ UNCHANGED <<isLoaded, syncHeight, cachedBlockCount, uvars, nEvents,
                   fetched, startedEmpty, base, nvars>>

\* getTxFullInfo (203) fails: the await throws before parseTransaction and
\* updateMempool are called, and the promise of the handler is rejected
TxFetchFails(t) ==
    /\ tpc[t] = "fetch"
    /\ tpc' = [tpc EXCEPT ![t] = "idle"]
    /\ ti' = [ti EXCEPT ![t] = 0]
    /\ txs' = [txs EXCEPT ![t] = <<>>]
    /\ orphans' = orphans \ {<<"recent_txs", t>>}
    /\ Settles("recent_txs", "threw")
    /\ UNCHANGED <<ledger, cachedBlockCount, uvars, nEvents, fetched, startedEmpty, base,
                   notified, nvars>>

\* getTxFullInfo (203) answers with a body that parseTransaction cannot read (a body
\* without vout makes line 349 throw): nothing catches, updateMempool is not called
\* and the promise of the handler is rejected
TxParseFails(t) ==
    /\ tpc[t] = "fetch"
    /\ tpc' = [tpc EXCEPT ![t] = "idle"]
    /\ ti' = [ti EXCEPT ![t] = 0]
    /\ txs' = [txs EXCEPT ![t] = <<>>]
    /\ orphans' = orphans \ {<<"recent_txs", t>>}
    /\ Settles("recent_txs", "threw")
    /\ UNCHANGED <<ledger, cachedBlockCount, uvars, nEvents, fetched, startedEmpty, base,
                   notified, nvars>>

(* ============================== lock.js =============================== *)
\* a lock that is never found taken
CanLockAlways == TRUE
\* #tryLock (25-29) succeeds
CanLock == ~isLocked

\* tryEval (41-53) up to its await: a locked object returns at line 48; otherwise
\* func is invoked, and either throws before it suspends (finally, 51) or is awaited
TryEval(k, throws) ==
    /\ lpc[k] = "idle"
    /\ IF ~CanLock
       THEN lpc' = [lpc EXCEPT ![k] = "skipped"] /\ UNCHANGED isLocked
       ELSE IF throws
       THEN lpc' = [lpc EXCEPT ![k] = "threw"] /\ isLocked' = FALSE
       ELSE lpc' = [lpc EXCEPT ![k] = "running"] /\ isLocked' = TRUE
    /\ UNCHANGED <<netvars, cvars, rvars, hvars, callerTick, mvars, lock, gpc, outpointStatus,
                   storedTxs, nOps, returned>>

\* the promise of func settles: finally (50-52) drops the lock
FuncSettles(k, how) ==
    /\ lpc[k] = "running"
    /\ lpc' = [lpc EXCEPT ![k] = how]
    /\ isLocked' = FALSE
    /\ UNCHANGED <<netvars, cvars, rvars, hvars, callerTick, mvars, lock, gpc, outpointStatus,
                   storedTxs, nOps, returned>>

(* ------------- lockableFunction (src/unnamed/part_000:64-78) ---------- *)
\* g up to its await: with the lock free f is invoked (68-70); with the lock taken
\* the try block does nothing; the finally block (72-74) runs in both cases
G(k, throws) ==
    /\ gpc[k] = "idle"
    /\ IF lock
       THEN gpc' = [gpc EXCEPT ![k] = "skipped"] /\ lock' = FALSE
       ELSE IF throws
       THEN gpc' = [gpc EXCEPT ![k] = "threw"] /\ lock' = FALSE
       ELSE gpc' = [gpc EXCEPT ![k] = "running"] /\ lock' = TRUE
    /\ UNCHANGED <<netvars, cvars, rvars, hvars, callerTick, mvars, isLocked, lpc,
                   outpointStatus, storedTxs, nOps, returned>>

\* the promise of f settles: finally (72-74)
FSettles(k, how) ==
    /\ gpc[k] = "running"
    /\ gpc' = [gpc EXCEPT ![k] = how]
    /\ lock' = FALSE
    /\ UNCHANGED <<netvars, cvars, rvars, hvars, callerTick, mvars, isLocked, lpc,
                   outpointStatus, storedTxs, nOps, returned>>

(* ============ bitmask ledger (src/unnamed/part_003) =================== *)
\* OutpointState (4-12)
OURS == 1
P2PKH == 2
P2CS == 4
SPENT == 8
LOCKED == 32

\* getOutpointStatus (80-82): the status of the entry, 0 without one
GetOutpointStatus(m, op) ==
    IF \E i \in DOMAIN m : m[i].op = op
    THEN m[CHOOSE i \in DOMAIN m : m[i].op = op].status
    ELSE 0

\* Map.set (90, 100, 110): an entry keeps its place, a new one goes last
SetOutpointStatus(m, op, status) ==
    IF \E i \in DOMAIN m : m[i].op = op
    THEN [m EXCEPT ![CHOOSE i \in DOMAIN m : m[i].op = op].status = status]
    ELSE Append(m, [op |-> op, status |-> status])

\* an addOutpointStatus that overrides the old status
AddOutpointStatusOverriding(m, op, status) == SetOutpointStatus(m, op, status)
\* addOutpointStatus (98-101): oldStatus | status (undefined | status is status)
AddOutpointStatus(m, op, status) ==
    LET oldStatus == GetOutpointStatus(m, op)
    IN  SetOutpointStatus(m, op, oldStatus + status - BitAnd(oldStatus, status))

\* removeOutpointStatus (108-111): oldStatus & ~status (undefined & x is 0)
RemoveOutpointStatus(m, op, status) ==
    LET oldStatus == GetOutpointStatus(m, op)
    IN  SetOutpointStatus(m, op, oldStatus - BitAnd(oldStatus, status))

\* the loop of addTransaction (31-33) from input i of tx.vin on: setSpent (117-119)
RECURSIVE AddTransaction(_, _, _)
AddTransaction(m, vin, i) ==
    IF i > Len(vin) THEN m
    ELSE AddTransaction(AddOutpointStatus(m, vin[i], SPENT), vin, i + 1)

\* the loop of getUTXOs (180-193) from entry i on; outpointToUTXO gives null for an
\* outpoint whose transaction is not stored (136), and line 189 then throws
RECURSIVE StatusGetUTXOs(_, _, _, _, _, _, _, _)
StatusGetUTXOs(m, stored, filter, requirement, target, i, found, value) ==
    IF i > Len(m) THEN [threw |-> FALSE, utxos |-> found]
    ELSE IF BitAnd(m[i].status, filter) # 0
    THEN StatusGetUTXOs(m, stored, filter, requirement, target, i + 1, found, value)
    ELSE IF BitAnd(m[i].status, requirement) # requirement
    THEN StatusGetUTXOs(m, stored, filter, requirement, target, i + 1, found, value)
    ELSE IF m[i].op[1] \notin stored
    THEN [threw |-> TRUE, utxos |-> <<>>]
    ELSE LET v == value + ParseValue(Vout(m[i].op).value)
         IN  IF \E n \in target : v - n >= n \div 10
             THEN [threw |-> FALSE, utxos |-> Append(found, m[i].op)]
             ELSE StatusGetUTXOs(m, stored, filter, requirement, target, i + 1,
                                 Append(found, m[i].op), v)

\* loopSpendableBalance (src/unnamed/part_004:521-536): the outputs fn is called for
LoopSpendableBalance(m, stored, requirement) ==
    {op \in Outpoints :
        /\ op[1] \in stored
        /\ BitAnd(GetOutpointStatus(m, op), SPENT + LOCKED) = 0
        /\ BitAnd(GetOutpointStatus(m, op), requirement) = requirement}

\* the calls of a user of the ledger
AddOutpointStatusCall(op, status) ==
    /\ nOps < MaxOps
    /\ nOps' = nOps + 1
    /\ outpointStatus' = AddOutpointStatus(outpointStatus, op, status)
    /\ returned' = [call |-> "none"]
    /\ UNCHANGED <<netvars, cvars, rvars, hvars, callerTick, mvars, isLocked, lpc, lock, gpc,
                   storedTxs>>

RemoveOutpointStatusCall(op, status) ==
    /\ nOps < MaxOps
    /\ nOps' = nOps + 1
    /\ outpointStatus' = RemoveOutpointStatus(outpointStatus, op, status)
    /\ returned' = [call |-> "none"]
    /\ UNCHANGED <<netvars, cvars, rvars, hvars, callerTick, mvars, isLocked, lpc, lock, gpc,
                   storedTxs>>

\* addTransaction (29-34) of the transaction txid, whose tx.vin lists its inputs as vin
AddTransactionCall(txid, vin) ==
    /\ nOps < MaxOps
    /\ nOps' = nOps + 1
    /\ storedTxs' = storedTxs \cup {txid}
    /\ outpointStatus' = AddTransaction(outpointStatus, vin, 1)
    /\ returned' = [call |-> "none"]
    /\ UNCHANGED <<netvars, cvars, rvars, hvars, callerTick, mvars, isLocked, lpc, lock, gpc>>

\* getUTXOs (173-195); target is {} for the default, Number.POSITIVE_INFINITY
StatusGetUTXOsCall(filter, requirement, target) ==
    /\ returned.call = "none"
    /\ returned' = [call |-> "getUTXOs", filter |-> filter, requirement |-> requirement,
                    target |-> target,
                    value |-> StatusGetUTXOs(outpointStatus, storedTxs, filter, requirement,
                                             target, 1, <<>>, 0)]
    /\ UNCHANGED <<netvars, cvars, rvars, hvars, callerTick, mvars, isLocked, lpc, lock, gpc,
                   outpointStatus, storedTxs, nOps>>

LoopSpendableBalanceCall(requirement) ==
    /\ returned.call = "none"
    /\ returned' = [call |-> "loopSpendableBalance", requirement |-> requirement,
                    value |-> LoopSpendableBalance(outpointStatus, storedTxs, requirement)]
    /\ UNCHANGED <<netvars, cvars, rvars, hvars, callerTick, mvars, isLocked, lpc, lock, gpc,
                   outpointStatus, storedTxs, nOps>>

(* --------------------------- specification ---------------------------- *)
\* the steps of a createWebSocketConnection call
ConnectorNext(p) ==
    \/ SetNetwork(p)
    \/ SetNextExplorer(p)
    \/ ResetWake(p)
    \/ ResetClear(p)
    \/ OpenAfterReset(p)
    \/ InitWake(p)
    \/ InitSubscribe(p)
    \/ Subscribe(p)

\* the WebSocket instances and the explorer behind them
WebSocketNext ==
    \/ \E c \in Conns : WsOpen(c)
    \/ \E c \in Conns : WsCloseClean(c)
    \/ \E c \in Conns : WsCloseUnclean(c)
    \/ \E c \in Conns, id \in IDs, d \in Data : OnMessage(c, id, d)

\* the steps of a sendAndWaitForAnswer call
RequesterNext(r) ==
    \/ SendAndWaitForAnswer(r)
    \/ SendWake(r)
    \/ Send(r)
    \/ PollWake(r)
    \/ BackoffWake(r)

\* two overlapping createWebSocketConnection calls
Next ==
    \/ \E p \in {"c1", "c2"} : ConnectorNext(p)
    \/ WebSocketNext

Spec == Init /\ [][Next]_vars

\* three overlapping createWebSocketConnection calls made by callers, on connections
\* that open and close while the explorer sends nothing
NextOverlap ==
    \/ \E p \in Connectors : SetNetwork(p)
    \/ \E p \in Connectors : ResetWake(p)
    \/ \E p \in Connectors : ResetClear(p)
    \/ \E p \in Connectors : OpenAfterReset(p)
    \/ \E p \in Connectors : InitWake(p)
    \/ \E p \in Connectors : InitSubscribe(p)
    \/ \E p \in Connectors : Subscribe(p)
    \/ \E c \in Conns : WsOpen(c)
    \/ \E c \in Conns : WsCloseClean(c)
    \/ \E c \in Conns : WsCloseUnclean(c)

SpecOverlap == Init /\ [][NextOverlap]_vars

\* one sendAndWaitForAnswer call, while the connection is replaced by successive
\* createWebSocketConnection calls
NextReq ==
    \/ (nConns < MaxConnsReq /\ SetNetwork("c1"))
    \/ (nConns < MaxConnsReq /\ SetNextExplorer("c1"))
    \/ ResetWake("c1")
    \/ ResetClear("c1")
    \/ OpenAfterReset("c1")
    \/ InitWake("c1")
    \/ InitSubscribe("c1")
    \/ Subscribe("c1")
    \/ WebSocketNext
    \/ \E r \in Requesters : RequesterNext(r)

SpecReq == Init /\ [][NextReq]_vars


\* the two locks under callers that call while earlier calls are in flight
NextLock ==
    \/ \E k \in 1..MaxCalls, throws \in BOOLEAN : TryEval(k, throws)
    \/ \E k \in 1..MaxCalls, how \in {"returned", "threw"} : FuncSettles(k, how)
    \/ \E k \in 1..MaxCalls, throws \in BOOLEAN : G(k, throws)
    \/ \E k \in 1..MaxCalls, how \in {"returned", "threw"} : FSettles(k, how)

SpecLock == Init /\ [][NextLock]_vars

\* the bitmask ledger under a user that sets and clears bits, adds transactions
\* and reads
NextStatus ==
    \/ \E op \in Outpoints, status \in {OURS + P2PKH, SPENT, LOCKED} :
          AddOutpointStatusCall(op, status)
    \/ \E op \in Outpoints, status \in {OURS + P2PKH, SPENT, LOCKED} :
          RemoveOutpointStatusCall(op, status)
    \/ \E txid \in TxIds : \E vin \in Orders(VinOf(txid)) : AddTransactionCall(txid, vin)
    \/ \E filter \in {SPENT + LOCKED, SPENT}, requirement \in {0, OURS + P2PKH},
          target \in {{}, {5 * COIN}} : StatusGetUTXOsCall(filter, requirement, target)
    \/ \E requirement \in {0, OURS + P2PKH} : LoopSpendableBalanceCall(requirement)

SpecStatus == Init /\ [][NextStatus]_vars

\* the ledger: events of the explorer, answers to its fetches, reset() and new blocks
NextMempool ==
    \/ \E u \in UtxoCalls, list \in Lists(UtxoEntries, MaxUtxos) : OnUtxo(u, list)
    \/ \E u \in UtxoCalls : UtxoFetched(u)
    \/ \E t \in RecentCalls, list \in Lists(TxEntries, MaxTxs) : OnRecentTxs(t, list)
    \/ \E t \in RecentCalls : TxFetched(t)
    \/ Reset
    \/ NewBlock

SpecMempool == Init /\ [][NextMempool]_vars

\* the ledger with one call of each handler at a time, whose fetches may fail
NextFetch ==
    \/ \E list \in Lists(UtxoEntries, MaxUtxos) : OnUtxo(1, list)
    \/ UtxoFetched(1)
    \/ UtxoFetchFails(1)
    \/ \E list \in Lists(TxEntries, MaxTxs) : OnRecentTxs(1, list)
    \/ TxFetched(1)
    \/ TxFetchFails(1)
    \/ TxParseFails(1)
    \/ Reset
    \/ NewBlock

SpecFetch == Init /\ [][NextFetch]_vars

\* the ledger with one call of each handler at a time, read by callers: with and
\* without a target, for every order in which txmap can hold its transactions
NextRead ==
    \/ \E list \in Lists(UtxoEntries, MaxUtxos) : OnUtxo(1, list)
    \/ UtxoFetched(1)
    \/ \E list \in Lists(TxEntries, MaxTxs) : OnRecentTxs(1, list)
    \/ TxFetched(1)
    \/ NewBlock
    \/ \E filter \in Filters, target \in {{}} \cup {{n} : n \in Amounts}, onlyConfirmed \in BOOLEAN,
          order \in Orders(DOMAIN txmap) : GetUTXOsCall(filter, target, onlyConfirmed, order)
    \/ \E val \in Amounts, filter \in Filters, onlyConfirmed \in BOOLEAN,
          order \in Orders(DOMAIN txmap) : GetAllUTXOsWithValueCall(val, filter, onlyConfirmed, order)

SpecRead == Init /\ [][NextRead]_vars


(* ------------------------------ claims -------------------------------- *)
CommunicationFailure == "Failed to communicate with the explorer"
ConnectionTimeout == "Cannot connect to websocket!"
CloseTimeout == "Websocket is not getting closed"

\* C1: one sendAndWaitForAnswer call makes at most maxAttempts sends; what it returns
\* is a cached reply without an error field; it fails with the communication failure
\* only after maxAttempts sends, and once the attempts are used up it has failed so.
C1_AtMostMaxAttempts ==
    \A r \in Requesters :
        /\ nSends[r] <= maxAttempts
        /\ rpc[r] = "done" => (rres[r] # undefined /\ rres[r].data # "err")
        /\ rerr[r] = CommunicationFailure => (rpc[r] = "failed" /\ nSends[r] = maxAttempts)
        /\ attempt[r] > maxAttempts => (rpc[r] = "failed" /\ rerr[r] = CommunicationFailure)

\* all attempts were used and the call failed
C1_Witness ==
    \E r \in Requesters :
        rpc[r] = "failed" /\ rerr[r] = CommunicationFailure /\ nSends[r] = maxAttempts


\* requester r takes a step
RStep(r) == <<rpc[r], rj[r], ri[r], attempt[r]>>' # <<rpc[r], rj[r], ri[r], attempt[r]>>
\* what follows the end of attempt a: the next send, or the failure of the call
AfterAttempt(a) == IF a < maxAttempts THEN {"sendWait", "sendMicro"} ELSE {"failed"}

\* C2: a waiting attempt whose connection instance is no longer the current one stops at
\* its next poll without reading the cache, as attempt number attempt + 1 the request is
\* sent again, and every send takes a fresh identifier and goes to the current instance.
C2_AbandonsOnSwap ==
    [][\A r \in Requesters :
        /\ (rpc[r] = "poll" /\ rws[r] # ws /\ RStep(r)) =>
              /\ attempt'[r] = attempt[r] + 1
              /\ rpc'[r] \in AfterAttempt(attempt[r])
              /\ cachedResults' = cachedResults
              /\ rres'[r] = rres[r]
        /\ (rpc[r] = "sendMicro" /\ rpc'[r] \in {"poll", "backoff", "done"}) =>
              /\ ID \notin issued
              /\ rid'[r] = ID
              /\ rws'[r] = ws
              /\ readyState[ws] = "OPEN" => sent'[ID] = ws
      ]_vars

\* the second attempt waits on the new instance after the first was abandoned
C2_Witness ==
    \E r \in Requesters :
        /\ ended[r] = "swapped" /\ attempt[r] = 2 /\ rpc[r] = "poll"
        /\ rws[r] = ws /\ sent[rid[r]] = ws /\ ws > 1

\* C3: a wait never goes beyond AwaitPolls polls; an answer the call returns is the one
\* its own attempt's instance cached (no error, taken out of the cache); and once the
\* instance it was sent on is closed and replaced, the attempt ends at the next poll
\* as "swapped" (the retry goes to the new instance).
C3_NoHangAfterReset ==
    [][\A r \in Requesters :
        /\ rpc[r] = "poll" => rj[r] < AwaitPolls
        /\ (rpc[r] = "poll" /\ rpc'[r] = "poll" /\ RStep(r)) => rj'[r] = rj[r] + 1
        /\ (rpc'[r] = "done" /\ rpc[r] # "done") =>
              /\ rres'[r] = cachedResults[rid'[r]]
              /\ rres'[r].from = rws'[r]
              /\ rres'[r].data = "ok"
              /\ cachedResults'[rid'[r]] = undefined
        /\ (rpc[r] = "poll" /\ readyState[rws[r]] = "CLOSED" /\ ws # rws[r] /\ RStep(r)) =>
              ended'[r] = "swapped" /\ rpc'[r] # "poll"
      ]_vars

\* reset() called close() on the instance while the call waited (only reset() makes an
\* instance CLOSING), and the call returned the answer that instance had cached
C3_WitnessOldAnswer ==
    \E r \in Requesters :
        rpc[r] = "done" /\ ended[r] = "answeredClosing" /\ rres[r].from = rws[r]

\* C9: a reply with an error field is taken out of the cache and not returned; the
\* attempt ends after the back-off, counted (attempt + 1), and the request is sent again
\* under a fresh identifier, or the call fails when that was the last attempt.
C9_ErrorReplyRetried ==
    [][\A r \in Requesters :
        /\ (rpc'[r] = "backoff" /\ rpc[r] # "backoff") =>
              /\ cachedResults[rid'[r]].data = "err"
              /\ cachedResults'[rid'[r]] = undefined
              /\ rres'[r] = rres[r]
              /\ attempt'[r] = attempt[r]
        /\ (rpc[r] = "poll" /\ rws[r] = ws /\ rj[r] + 1 < AwaitPolls
                /\ cachedResults[rid[r]].data = "err" /\ RStep(r)) => rpc'[r] = "backoff"
        /\ (rpc[r] = "backoff" /\ RStep(r)) =>
              /\ attempt'[r] = attempt[r] + 1
              /\ ended'[r] = "error"
              /\ rpc'[r] \in AfterAttempt(attempt[r])
              /\ rpc'[r] = "failed" => rerr'[r] = CommunicationFailure
        /\ (rpc'[r] = "done" /\ rpc[r] # "done") => rres'[r].data # "err"
        /\ (rpc[r] = "sendMicro" /\ RStep(r)) => (ID \notin issued /\ ID' = ID + 1)
      ]_vars

\* the request was sent again after an error reply
C9_Witness ==
    \E r \in Requesters :
        ended[r] = "error" /\ attempt[r] = 2 /\ rpc[r] = "poll" /\ nSends[r] = 2


\* C4: no message of an instance other than the current one is ever cached or handed
\* to a callback, every cached entry came on the current instance, and every
\* subscription in the table was registered for the current instance.
C4_NoStaleMessage ==
    /\ ~stale
    /\ \A id \in IDs : cachedResults[id] # undefined => cachedResults[id].from = ws
    /\ \A id \in IDs : subscriptions[id] # 0 => subscriptions[id] = ws

\* a later instance has cached a message after a message of a closing instance was
\* turned away
C4_Witness ==
    /\ ws >= 2
    /\ dropped
    /\ \E id \in IDs : cachedResults[id] # undefined /\ cachedResults[id].from = ws

\* C5: a message that arrives on an instance that is not OPEN changes neither the
\* cache nor the set of invoked callbacks.
C5_RejectsWhenNotOpen ==
    [][\A c \in Conns, id \in IDs, d \in Data :
        (OnMessage(c, id, d) /\ readyState[c] # "OPEN") =>
            (cachedResults' = cachedResults /\ called' = called /\ dropped')
      ]_vars

\* a message arrived on a closing instance that holds a subscription
C5_Witness ==
    /\ dropped
    /\ \E id \in IDs : subscriptions[id] # 0 /\ readyState[subscriptions[id]] # "OPEN"

\* reset() of connector p returns in this step
ResetReturns(p) == cpc[p] = "resetMicro" /\ cpc'[p] = "openMicro"

\* C6: when reset() returns, the instance it was called on is CLOSED and both tables
\* are empty; the wait ends only on a CLOSED instance, and the subscription table is
\* emptied by nothing but a returning reset().
C6_ResetClearsAfterClosed ==
    [][/\ \A p \in Connectors :
            /\ ResetReturns(p) =>
                  /\ cachedResults' = NoEntries
                  /\ subscriptions' = NoSubscriptions
                  /\ readyState'[cws[p]] = "CLOSED"
            /\ (cpc[p] = "resetWait" /\ cpc'[p] = "resetMicro") => readyState[ws] = "CLOSED"
       /\ (subscriptions # NoSubscriptions /\ subscriptions' = NoSubscriptions) =>
            \E p \in Connectors : ResetReturns(p) /\ readyState[cws[p]] = "CLOSED"
      ]_vars

\* C7: a createWebSocketConnection call made while an instance exists leaves that
\* instance torn down: once the call is over, the instance is neither CONNECTING nor OPEN.
C7_TearsDownAnyState ==
    \A p \in Connectors :
        (cpc[p] \in {"done", "failed"} /\ cws[p] # 0) =>
            readyState[cws[p]] \notin {"CONNECTING", "OPEN"}

\* C8: a wait for a state sleeps at most StatusPolls times; when it gives up the
\* operation fails with its error and changes nothing of the client (no identifier,
\* no request, no subscription, no clearing); a failed call stays failed, and a send
\* that gives up ends the call without using another attempt.
C8_WaitsBoundedAndFatal ==
    [][/\ \A p \in Connectors :
            /\ ci[p] <= StatusPolls
            /\ cpc[p] \in {"resetWait", "initWait", "subWait"} => ci[p] < StatusPolls
            /\ (cpc'[p] = "failed" /\ cpc[p] \in {"resetWait", "initWait", "subWait"}) =>
                  /\ cerr'[p] = IF cpc[p] = "resetWait" THEN CloseTimeout ELSE ConnectionTimeout
                  /\ ci'[p] = StatusPolls
                  /\ UNCHANGED netvars
       /\ \A r \in Requesters :
            /\ ri[r] <= StatusPolls
            /\ rpc[r] = "sendWait" => ri[r] < StatusPolls
            /\ (rpc'[r] = "failed" /\ rpc[r] = "sendWait") =>
                  /\ rerr'[r] = ConnectionTimeout
                  /\ ri'[r] = StatusPolls
                  /\ UNCHANGED <<netvars, attempt, nSends, issued>>
            /\ rpc[r] = "failed" => rpc'[r] = "failed"
      ]_vars

\* a send gave up waiting for OPEN and the call failed with attempts left
C8_Witness ==
    \E r \in Requesters :
        rpc[r] = "failed" /\ rerr[r] = ConnectionTimeout /\ attempt[r] < maxAttempts

\* C10: the counter only grows, by one for each identifier handed out; an identifier
\* handed out, or put in the subscription table, was never handed out before.
C10_FreshIdentifiers ==
    [][/\ ID' \in {ID, ID + 1}
       /\ \A i \in issued : i < ID
       /\ issued' # issued => (ID \notin issued /\ issued' = issued \cup {ID} /\ ID' = ID + 1)
       /\ ID' # ID => issued' # issued
       /\ \A id \in IDs :
            (subscriptions'[id] # 0 /\ subscriptions[id] = 0) => (id = ID /\ ID \notin issued)
      ]_vars

\* identifiers were handed out to sends and to subscriptions on two instances
C10_Witness ==
    /\ nConns >= 2
    /\ Cardinality(subIds) >= 2
    /\ \E r \in Requesters : nSends[r] >= 1
    /\ ID >= 3

\* C11: whenever send() returns an identifier and an instance, that instance was OPEN
\* at the moment of ws.send, the request was transmitted on it, and it is the
\* instance returned.
C11_SendsOnOpen ==
    [][\A r \in Requesters :
        (rpc[r] = "sendMicro" /\ rpc'[r] \in {"poll", "backoff", "done"}) =>
            /\ readyState[ws] = "OPEN"
            /\ sent'[ID] = ws
            /\ rws'[r] = ws
      ]_vars

\* a sendAndWaitForAnswer call took a reply or an error reply out of the cache
TookReply(r) == rpc'[r] \in {"done", "backoff"} /\ rpc[r] \in {"sendMicro", "poll"}

C13_SubscribedOnSuccess ==
    [][\A p \in Connectors :
        (cpc[p] # "done" /\ cpc'[p] = "done") =>
            /\ ws # 0 /\ ws' = ws
            /\ readyState[ws] = "OPEN"
            /\ ID \notin issued
            /\ subscriptions'[ID] = ws
            /\ sent'[ID] = ws
            /\ ID \in subIds'
      ]_vars

\* a reconnection has completed and a push on the new instance has reached the callback
C13_Witness ==
    \E p \in Connectors, id \in called :
        /\ cpc[p] = "done" /\ ws >= 2 /\ readyState[ws] = "OPEN"
        /\ subscriptions[id] = ws /\ sent[id] = ws

\* C14: a close event that is not clean makes the client call setNextExplorer, which
\* establishes a replacement connection; a clean close, such as the one that follows
\* the close() of reset(), calls nothing.
C14_ReconnectsWhenUnclean ==
    [][\A c \in Conns :
        (readyState[c] # "CLOSED" /\ readyState'[c] = "CLOSED") =>
            /\ ~wasClean' => reconnects' = reconnects + 1
            /\ wasClean' => reconnects' = reconnects
            /\ readyState[c] \in {"CONNECTING", "OPEN"} => ~wasClean'
      ]_vars

\* the instance closed by reset() has closed cleanly, and the replacement triggered by
\* an earlier unclean close has been established and subscribed
C14_Witness ==
    /\ wasClean /\ reconnects = 0
    /\ ws >= 3 /\ readyState[ws] = "OPEN"
    /\ \E p \in Connectors : cpc[p] = "done"
    /\ \A c \in 1..(ws - 1) : readyState[c] = "CLOSED"

(* ------------------------- claims on the ledger ------------------------ *)
\* the sum of the stored values of a set of outputs
RECURSIVE ValueOf(_)
ValueOf(ops) ==
    IF ops = {} THEN 0
    ELSE LET op == CHOOSE o \in ops : TRUE
         IN  ParseValue(Vout(op).value) + ValueOf(ops \ {op})
Classified(filter) == {op \in Outpoints : BitAnd(Vout(op).state, filter) # 0}
\* a call of the 'utxo' handler that started on an empty ledger completes in this step
SnapshotCompletes(u) == upc[u] = "fetch" /\ upc'[u] = "idle" /\ startedEmpty[u]
Listed(list) == {op \in Outpoints : IsMyUTXO(list, op)}

\* C15: getBalanceNew(filter) is the sum of the values of the outputs of stored
\* transactions that are not spent and whose classification intersects filter; when
\* a snapshot ingestion that started on an empty ledger completes, it is the sum of
\* the snapshot's outputs classified under filter.
C15_BalanceIsSumOfUnspent ==
    [][\A filter \in {SPENDABLE, SPENDABLE_COLD} :
        /\ GetBalanceNew(txmap, spent, filter) =
              ValueOf({op \in Classified(filter) : Has(txmap, op[1]) /\ ~IsSpent(spent, op)})
        /\ \A u \in UtxoCalls : SnapshotCompletes(u) =>
              GetBalanceNew(txmap', spent', filter) = ValueOf(Listed(utxos[u]) \cap Classified(filter))
      ]_vars

\* C16: when a snapshot ingestion that started on an empty ledger completes, the
\* stored transactions are those the entries name, each fetched once by the call, and
\* an output of a stored transaction is marked spent exactly when no entry names it.
C16_SnapshotStoresAndMarks ==
    [][\A u \in UtxoCalls : SnapshotCompletes(u) =>
        LET named == {utxos[u][k].txid : k \in 1..Len(utxos[u])} IN
        /\ DOMAIN txmap' = named
        /\ \A txid \in named :
              Cardinality({k \in 1..Len(fetched[u]) : fetched[u][k] = txid}) = 1
        /\ \A op \in Outpoints :
              Has(txmap', op[1]) => (IsSpent(spent', op) <=> op \notin Listed(utxos[u]))
      ]_vars

\* the entries from i on that are not stale and whose transaction is not stored, or
\* is stored as unconfirmed while the notification says it is confirmed
Wanted(tm, list, i) ==
    {k \in i..Len(list) :
        /\ list[k].blockHeight >= syncHeight
        /\ \/ ~Has(tm, list[k].txid)
           \/ tm[list[k].txid] = -1 /\ list[k].blockHeight # -1}
\* the call t fetches for the first of the entries W of list, or ends without a fetch
FetchesFirst(t, list, W) ==
    IF W = {} THEN tpc'[t] = "idle"
    ELSE /\ tpc'[t] = "fetch"
         /\ txs'[t] = list
         /\ ti'[t] \in W /\ \A k \in W : ti'[t] <= k

\* C17: on a loaded ledger the 'recent_txs' handler fetches for an entry exactly when
\* the entry is not stale and its transaction is unknown, or known as unconfirmed and
\* notified as confirmed; the answer is stored in place of what was stored and every
\* input of it is marked spent; entries that need no fetch change neither map.
C17_FetchesWhenUnknownOrUnconfirmed ==
    [][/\ \A t \in RecentCalls, list \in Lists(TxEntries, MaxTxs) :
            (OnRecentTxs(t, list) /\ isLoaded) =>
                /\ FetchesFirst(t, list, Wanted(txmap, list, 1))
                /\ txmap' = txmap /\ spent' = spent
       /\ \A t \in RecentCalls : TxFetched(t) =>
            LET txid == txs[t][ti[t]].txid IN
            /\ txmap' = MapSet(txmap, txid, ParseTransaction(txid))
            /\ spent' = spent \cup VinOf(txid)
            /\ isLoaded => FetchesFirst(t, txs[t], Wanted(txmap', txs[t], ti[t] + 1))
      ]_vars

\* the confirmed copy of a transaction stored as unconfirmed is being fetched, for a
\* batch whose first entry, known and confirmed, needed no fetch
C17_Witness ==
    \E t \in RecentCalls :
        /\ isLoaded /\ tpc[t] = "fetch" /\ ti[t] = 2
        /\ Has(txmap, txs[t][1].txid) /\ txmap[txs[t][1].txid] # -1
        /\ txs[t][1].blockHeight >= syncHeight
        /\ Has(txmap, txs[t][2].txid) /\ txmap[txs[t][2].txid] = -1

\* C18: the 'recent_txs' handler fetches for no entry whose height is below
\* #syncHeight, and a batch whose entries are all below it leaves txmap, spent and
\* the cached balances as they were.
C18_DropsStale ==
    [][/\ \A t \in RecentCalls :
            (tpc'[t] = "fetch" /\ <<txs[t], ti[t]>> # <<txs'[t], ti'[t]>>) =>
                txs'[t][ti'[t]].blockHeight >= syncHeight
       /\ \A t \in RecentCalls, list \in Lists(TxEntries, MaxTxs) :
            (OnRecentTxs(t, list) /\ \A k \in 1..Len(list) : list[k].blockHeight < syncHeight) =>
                /\ tpc'[t] = "idle"
                /\ UNCHANGED <<txmap, spent, balance, coldBalance>>
      ]_vars

\* a batch of two entries below the mark, one of a mined and one of a pending
\* transaction, neither of them stored, has been handled on a loaded ledger
C18_Witness ==
    /\ isLoaded
    /\ \A t \in RecentCalls : tpc[t] = "idle"
    /\ \E e1, e2 \in notified :
          /\ e1.blockHeight = -1 /\ e2.blockHeight \in 0..(syncHeight - 1)
          /\ ~Has(txmap, e1.txid) /\ ~Has(txmap, e2.txid)

\* C19: an outpoint that is marked spent stays marked through every step of the
\* 'utxo' and 'recent_txs' handlers, in any interleaving; only reset() empties spent.
C19_SpentNeverUnmarked ==
    [][(\A op \in Outpoints : IsSpent(spent, op) => IsSpent(spent', op)) \/ Reset]_vars

\* since the ledger was loaded, a transaction stored as unconfirmed has been replaced
\* by its confirmed copy and outpoints have been marked, next to those marked before
C19_Witness ==
    \E b \in base :
        /\ \E txid \in DOMAIN b.txmap : b.txmap[txid] = -1 /\ txmap[txid] # -1
        /\ b.spent # {} /\ b.spent \subseteq spent /\ b.spent # spent

\* C20: on a ledger loaded with no call in flight and not reset since, whenever no
\* 'recent_txs' call is in flight the spent set is the one of the load plus the inputs
\* of every notified transaction that was not stale and was unknown or unconfirmed at
\* the load: it depends on the set of notifications, not on the order or the grouping
\* of the batches.
C20_SpentIsOrderFree ==
    \A b \in base :
        (\A t \in RecentCalls : tpc[t] = "idle") =>
            spent = b.spent \cup UNION {VinOf(e.txid) : e \in
                        {n \in notified : /\ n.blockHeight >= syncHeight
                                          /\ ~Has(b.txmap, n.txid) \/ b.txmap[n.txid] = -1}}

\* three events, a snapshot and batches, have brought notifications of two heights
\* whose transactions were fetched, and both have added marks
C20_Witness ==
    \E b \in base :
        /\ nEvents = 3
        /\ \A t \in RecentCalls : tpc[t] = "idle"
        /\ \E e1, e2 \in notified :
              /\ syncHeight <= e1.blockHeight /\ e1.blockHeight < e2.blockHeight
              /\ ~Has(b.txmap, e1.txid) /\ ~Has(b.txmap, e2.txid)
              /\ Has(txmap, e1.txid) /\ Has(txmap, e2.txid)
              /\ ~(VinOf(e1.txid) \subseteq b.spent \cup VinOf(e2.txid))
              /\ ~(VinOf(e2.txid) \subseteq b.spent \cup VinOf(e1.txid))

\* the call u of the 'utxo' handler, given the entries of list, runs through its last
\* line in this step
Completed(u, list) ==
    /\ Len(list) > 0
    /\ upc'[u] = "idle"
    /\ result' = [handler |-> "utxo", how |-> "returned"]
    /\ \/ OnUtxo(u, list)
       \/ upc[u] = "fetch" /\ utxos[u] = list /\ UtxoFetched(u)
Refused(how) == result' = [handler |-> "utxo", how |-> how]

\* C21: a 'utxo' event with entries on a loaded ledger is refused: the call ends for
\* its caller in an error, and txmap, spent, #syncHeight and the cached balances are
\* left as they were.
C21_RefusesWhenLoaded ==
    [][\A u \in UtxoCalls, list \in Lists(UtxoEntries, MaxUtxos) :
          (OnUtxo(u, list) /\ isLoaded /\ Len(list) > 0) =>
              /\ Refused("threw")
              /\ upc'[u] = "idle"
              /\ UNCHANGED <<txmap, spent, syncHeight, balance, coldBalance>>
      ]_vars

\* C22: a 'utxo' event with entries that arrives while another call of the handler is
\* suspended at a fetch is rejected as an error and writes neither txmap, spent nor
\* #syncHeight.
C22_SecondSnapshotRejected ==
    [][\A u \in UtxoCalls, list \in Lists(UtxoEntries, MaxUtxos) :
          (OnUtxo(u, list) /\ Len(list) > 0 /\ \E v \in UtxoCalls \ {u} : upc[v] = "fetch") =>
              /\ Refused("threw") \/ Refused("logged")
              /\ upc'[u] = "idle"
              /\ UNCHANGED <<txmap, spent, syncHeight>>
      ]_vars

\* C23: while #isLoaded is false a 'recent_txs' event fetches nothing, leaves the
\* ledger as it was and returns without an error; #isLoaded becomes true only in the
\* step in which a call of the 'utxo' handler runs through its last line.
C23_BatchesOnlyWhenLoaded ==
    [][/\ \A t \in RecentCalls, list \in Lists(TxEntries, MaxTxs) :
            (OnRecentTxs(t, list) /\ ~isLoaded) =>
                /\ tpc'[t] = "idle"
                /\ result' = [handler |-> "recent_txs", how |-> "returned"]
                /\ UNCHANGED <<ledger, tvars, uvars>>
       /\ (~isLoaded /\ isLoaded') =>
            \E u \in UtxoCalls, list \in Lists(UtxoEntries, MaxUtxos) : Completed(u, list)
      ]_vars

\* a batch was handed to the handler and returned while the only 'utxo' call made so
\* far is still suspended at a fetch
C23_Witness ==
    /\ nEvents = 2
    /\ upc[1] = "fetch" /\ ~isLoaded
    /\ result = [handler |-> "recent_txs", how |-> "returned"]
    /\ \A t \in RecentCalls : tpc[t] = "idle"

\* C24: reset() leaves the ledger not loaded with empty maps, and a handler call that
\* was suspended at a fetch when reset() ran afterwards neither stores a transaction,
\* marks an outpoint nor sets #isLoaded.
C24_ResetCancelsIngestion ==
    [][/\ Reset => (~isLoaded' /\ DOMAIN txmap' = {} /\ spent' = {})
       /\ \A u \in UtxoCalls : (<<"utxo", u>> \in orphans /\ UtxoFetched(u)) =>
              UNCHANGED <<txmap, spent, isLoaded>>
       /\ \A t \in RecentCalls : (<<"recent_txs", t>> \in orphans /\ TxFetched(t)) =>
              UNCHANGED <<txmap, spent, isLoaded>>
      ]_vars

\* the transactions an outpoint can be marked for: the one it is an output of (164-172)
\* and those it is an input of (378-383)
MarkedFor(op) == {txid \in TxIds : op \in VoutsOf(txid) \cup VinOf(txid)}

MaxHeightOf(list) ==
    CHOOSE h \in {list[k].height : k \in 1..Len(list)} :
        \A k \in 1..Len(list) : list[k].height <= h

\* C29: when a call of the 'utxo' handler completes, #syncHeight is the greatest
\* height among the entries of its snapshot, also after a reset() that followed a
\* snapshot with greater heights.
C29_MarkIsSnapshotMax ==
    [][\A u \in UtxoCalls, list \in Lists(UtxoEntries, MaxUtxos) :
          Completed(u, list) => syncHeight' = MaxHeightOf(list)
      ]_vars

(* ------------------------- claims on the reads ------------------------- *)
Elems(seq) == {seq[k] : k \in DOMAIN seq}
\* the outputs of stored transactions that are not spent, are classified under filter
\* and, with onlyConfirmed, belong to a confirmed transaction
Available(filter, onlyConfirmed) ==
    {op \in Classified(filter) :
        /\ Has(txmap, op[1]) /\ ~IsSpent(spent, op)
        /\ onlyConfirmed => IsConfirmed(txmap[op[1]])}
\* the output x is visited before the output y when txmap holds its keys in order
Before(x, y, order) ==
    LET Pos(txid) == CHOOSE k \in DOMAIN order : order[k] = txid IN
    Pos(x[1]) < Pos(y[1]) \/ (x[1] = y[1] /\ x[2] < y[2])

\* C26: getUTXOs(filter, target) returns outputs worth less than target only when
\* all the available outputs are worth less than target, and then it returns them
\* all; it stops at the first output with which the value found exceeds target * 1.1,
\* and not before.
C26_SelectsEnough ==
    answer.call = "getUTXOs" =>
        LET R == answer.value
            all == Available(answer.filter, answer.onlyConfirmed)
            Exceeds(v, n) == v - n > n \div 10
        IN  \A n \in answer.target :
              /\ Elems(R) \subseteq all
              /\ ValueOf(Elems(R)) < n => (ValueOf(all) < n /\ Elems(R) = all)
              /\ \A k \in 1..(Len(R) - 1) : ~Exceeds(ValueOf({R[i] : i \in 1..k}), n)
              /\ ~Exceeds(ValueOf(Elems(R)), n) => Elems(R) = all

\* a scan for 3 coins stopped at its first output, worth more than 3.3 coins, and
\* left an available output out
C26_Witness ==
    /\ answer.call = "getUTXOs" /\ answer.target = {3 * COIN}
    /\ Len(answer.value) = 1
    /\ ValueOf(Elems(answer.value)) > 3 * COIN
    /\ Elems(answer.value) # Available(answer.filter, answer.onlyConfirmed)

\* C27: without a target getUTXOs returns, each once, the outputs of stored
\* transactions that are not spent and are classified under filter, whose values
\* getBalanceNew(filter) sums, less those of unconfirmed transactions when
\* onlyConfirmed is set; hasUTXO is true for exactly these outpoints.
C27_SelectsWhatBalanceSums ==
    (answer.call = "getUTXOs" /\ answer.target = {}) =>
        LET R == answer.value IN
        /\ \A i, j \in DOMAIN R : R[i] = R[j] => i = j
        /\ Elems(R) = Available(answer.filter, answer.onlyConfirmed)
        /\ ~answer.onlyConfirmed =>
              ValueOf(Elems(R)) = GetBalanceNew(txmap, spent, answer.filter)
        /\ \A op \in Outpoints :
              HasUTXO(txmap, spent, op, answer.filter, answer.onlyConfirmed) <=> op \in Elems(R)

\* a scan of confirmed transactions only returned outputs and left out an unspent
\* output, classified under the filter, of a transaction stored as unconfirmed
C27_Witness ==
    /\ answer.call = "getUTXOs" /\ answer.target = {} /\ answer.onlyConfirmed
    /\ answer.value # <<>>
    /\ Elems(answer.value) # Available(answer.filter, FALSE)

\* C28: getAllUTXOsWithValue returns one output for every derivation path for which
\* an output qualifies, and none for the other paths; a returned output has the
\* value asked for, is not spent, is classified under filter and, with
\* onlyConfirmed, belongs to a confirmed transaction; of the outputs that qualify
\* for one path the one visited last is returned.
C28_OnePerPathLastWins ==
    answer.call = "getAllUTXOsWithValue" =>
        LET M == answer.value
            Q == {op \in Available(answer.filter, answer.onlyConfirmed) :
                     ParseValue(Vout(op).value) = answer.val}
        IN  /\ DOMAIN M = {Vout(op).path : op \in Q}
            /\ \A p \in DOMAIN M :
                  /\ M[p] \in Q /\ Vout(M[p]).path = p
                  /\ \A op \in Q : Vout(op).path = p => ~Before(M[p], op, answer.order)

\* two outputs of 5 coins paying to the same key qualified, and the output of the
\* transaction that txmap holds first is not the one returned
C28_Witness ==
    /\ answer.call = "getAllUTXOsWithValue" /\ answer.val = 5 * COIN
    /\ Len(answer.order) >= 2
    /\ \E p \in DOMAIN answer.value :
          /\ answer.value[p][1] # answer.order[1]
          /\ <<answer.order[1], 0>> \in Available(answer.filter, answer.onlyConfirmed)
          /\ Vout(<<answer.order[1], 0>>).path = p
          /\ Vout(<<answer.order[1], 0>>).value = 5

C32_ParseFailureKeepsBatch ==
    [][\A t \in RecentCalls : TxParseFails(t) =>
          /\ result'.how # "threw"
          /\ FetchesFirst(t, txs[t], Wanted(txmap, txs[t], ti[t] + 1))
      ]_vars

\* C36: on a loaded ledger whose #syncHeight is a block height, a notification of a
\* pending transaction (blockHeight -1) that is not stored is fetched for.
C36_PendingIsAccepted ==
    [][\A t \in RecentCalls, list \in Lists(TxEntries, MaxTxs) :
          ( /\ OnRecentTxs(t, list) /\ isLoaded /\ syncHeight >= 0
            /\ Len(list) > 0 /\ list[1].blockHeight = -1 /\ ~Has(txmap, list[1].txid) ) =>
              /\ tpc'[t] = "fetch"
              /\ ti'[t] = 1
      ]_vars

\* C37: the blockHeight parseTransaction stores is -1 exactly when the body has 0
\* confirmations, whatever the cached block count.
C37_UnconfirmedIsMinusOne ==
    [][/\ \A u \in UtxoCalls : UtxoFetched(u) =>
            LET txid == utxos[u][ui[u]].txid IN
            ~IsConfirmed(txmap'[txid]) <=> Confirmations(txid) = 0
       /\ \A t \in RecentCalls : TxFetched(t) =>
            LET txid == txs[t][ti[t]].txid IN
            ~IsConfirmed(txmap'[txid]) <=> Confirmations(txid) = 0
      ]_vars

\* no call of a handler is suspended
Idle == (\A u \in UtxoCalls : upc[u] = "idle") /\ (\A t \in RecentCalls : tpc[t] = "idle")

\* C33: whenever no handler call is in progress, #balance and #coldBalance are what
\* getBalanceNew gives for the current txmap and spent.
C33_CachedBalancesAreCurrent ==
    Idle => /\ balance = GetBalanceNew(txmap, spent, SPENDABLE)
            /\ coldBalance = GetBalanceNew(txmap, spent, SPENDABLE_COLD)

\* C34: whenever no handler call is in progress, every input of a stored transaction
\* is marked spent.
C34_InputsOfStoredAreSpent ==
    Idle => \A txid \in DOMAIN txmap : \A op \in VinOf(txid) : IsSpent(spent, op)

\* C35: once a sendAndWaitForAnswer call has returned or failed, cachedResults holds
\* no entry under any identifier that the call issued, also when the reply to an
\* attempt the call gave up arrives late.
C35_NoSlotOutlivesTheCall ==
    \A r \in Requesters : rpc[r] \in {"done", "failed"} =>
        \A id \in issued \ subIds : cachedResults[id] = undefined

(* ------------------------- claims on the locks ------------------------ *)
\* C38: tryEval invokes the wrapped function exactly when the object is unlocked at
\* the call; a call made while an invocation is in flight returns without invoking
\* and leaves the lock held; at most one invocation is in flight; the lock is
\* dropped when the invocation settles, by return or by throw; and isLocked is true
\* exactly while an invocation is in flight.
C38_TryEvalIsExclusive ==
    [][/\ \A k \in 1..MaxCalls : (lpc[k] = "idle" /\ lpc'[k] # "idle") =>
            /\ lpc'[k] \in {"running", "threw"} <=> ~isLocked
            /\ isLocked => (lpc'[k] = "skipped" /\ isLocked')
       /\ \A k \in 1..MaxCalls : (lpc[k] = "running" /\ lpc'[k] # "running") => ~isLocked'
       /\ Cardinality({k \in 1..MaxCalls : lpc'[k] = "running"}) <= 1
       /\ isLocked' <=> \E k \in 1..MaxCalls : lpc'[k] = "running"
      ]_vars
\* one invocation threw and dropped the lock, the next is in flight, and a call made
\* meanwhile was turned away
C38_Witness ==
    /\ isLocked
    /\ \E i, j, k \in 1..MaxCalls : lpc[i] = "threw" /\ lpc[j] = "running" /\ lpc[k] = "skipped"

\* C39: the function lockableFunction returns never has two invocations of f in
\* flight; a call made while f runs does not invoke f and leaves the lock held; and
\* isLocked() is true exactly while f runs.
C39_LockableFunctionIsExclusive ==
    [][/\ \A k \in 1..MaxCalls : (gpc[k] = "idle" /\ gpc'[k] # "idle" /\ lock) =>
            (gpc'[k] = "skipped" /\ lock')
       /\ Cardinality({k \in 1..MaxCalls : gpc'[k] = "running"}) <= 1
       /\ lock' <=> \E k \in 1..MaxCalls : gpc'[k] = "running"
      ]_vars

(* -------------------- claims on the bitmask ledger -------------------- *)
\* C40: an outpoint without an entry reads as status 0; addOutpointStatus and
\* removeOutpointStatus set or clear the named bits of the named outpoint and leave
\* every other bit and every other outpoint as they were; addTransaction stores the
\* transaction and sets SPENT on each of its inputs, clearing nothing; and an
\* outpoint with SPENT or LOCKED is neither returned by getUTXOs with its default
\* filter nor handed to the callback of loopSpendableBalance.
C40_StatusBitsAreFramed ==
    [][/\ \A o \in Outpoints :
            (\A i \in DOMAIN outpointStatus : outpointStatus[i].op # o) =>
                GetOutpointStatus(outpointStatus, o) = 0
       /\ nOps' # nOps =>
            /\ \A op \in Outpoints, status \in {OURS + P2PKH, SPENT, LOCKED} :
                /\ AddOutpointStatusCall(op, status) =>
                     \A o \in Outpoints, bit \in {OURS, P2PKH, P2CS, SPENT, LOCKED} :
                        BitAnd(GetOutpointStatus(outpointStatus', o), bit) # 0
                            <=> \/ BitAnd(GetOutpointStatus(outpointStatus, o), bit) # 0
                                \/ (o = op /\ BitAnd(status, bit) # 0)
                /\ RemoveOutpointStatusCall(op, status) =>
                     \A o \in Outpoints, bit \in {OURS, P2PKH, P2CS, SPENT, LOCKED} :
                        BitAnd(GetOutpointStatus(outpointStatus', o), bit) # 0
                            <=> /\ BitAnd(GetOutpointStatus(outpointStatus, o), bit) # 0
                                /\ ~(o = op /\ BitAnd(status, bit) # 0)
            /\ \A txid \in TxIds : \A vin \in Orders(VinOf(txid)) :
                AddTransactionCall(txid, vin) =>
                    /\ txid \in storedTxs'
                    /\ \A o \in Outpoints, bit \in {OURS, P2PKH, P2CS, SPENT, LOCKED} :
                        BitAnd(GetOutpointStatus(outpointStatus', o), bit) # 0
                            <=> \/ BitAnd(GetOutpointStatus(outpointStatus, o), bit) # 0
                                \/ (o \in VinOf(txid) /\ bit = SPENT)
       /\ (returned'.call = "getUTXOs" /\ returned'.filter = SPENT + LOCKED) =>
            \A i \in DOMAIN returned'.value.utxos :
                BitAnd(GetOutpointStatus(outpointStatus, returned'.value.utxos[i]),
                       SPENT + LOCKED) = 0
       /\ returned'.call = "loopSpendableBalance" =>
            \A o \in returned'.value :
                BitAnd(GetOutpointStatus(outpointStatus, o), SPENT + LOCKED) = 0
      ]_vars
\* a and b are stored, the first output of a was marked ours before b spent it and
\* still is, and loopSpendableBalance has called back for every output of a and b
\* but that one
C40_Witness ==
    /\ storedTxs = {"a", "b"}
    /\ GetOutpointStatus(outpointStatus, <<"a", 0>>) = OURS + P2PKH + SPENT
    /\ returned.call = "loopSpendableBalance" /\ returned.requirement = 0
    /\ returned.value = {<<"a", 1>>, <<"b", 0>>, <<"b", 1>>}

====
